---- MODULE Spec2Model ----
(***************************************************************************)
(* Contract-review client: domain detection, the per-domain risk           *)
(* configuration, prompt construction and the assembly of the analysis     *)
(* record from the model's JSON answer (lib/gemini, shared/schema).        *)
(*                                                                         *)
(* Strings are TLA+ strings; an index i of the program (0-based) is the    *)
(* character i+1 here.  Non-integer numbers are scaled: penaltyMultiplier  *)
(* is kept in tenths (1.2 is 12) and confidence in hundredths (0.85 is 85).*)
(***************************************************************************)
EXTENDS Integers, Sequences, FiniteSets, TLC

VARIABLES
    pc,             \* position of the analyzeContract call
    contractText,   \* argument contractText
    title,          \* argument title
    domain,         \* local `domain` of analyzeContract
    config,         \* local `config` of analyzeContract
    systemPrompt,   \* the parameters written into the prompt text
    result,         \* the record analyzeContract resolves with
    error,          \* the message of the Error analyzeContract rejects with
    aiInstance,     \* module-level aiInstance (TRUE once constructed)
    apiKeyPromise,  \* module-level apiKeyPromise
    analysisData,   \* local `analysisData` of analyzeContract
    raised,         \* message of the error caught by the catch block
    configRequests, \* number of requests sent to /api/config
    question,       \* argument question of askContractQuestion
    qaAnswer,       \* the string askContractQuestion resolves with
    upload,         \* the useFileUpload mutation: file, calls made, outcome
    calls,          \* concurrent calls of analyzeContract / askContractQuestion
    localStorage,   \* window.localStorage: key -> stored JSON value
    storeCount,     \* number of storeAnalysis calls so far (the clock)
    analysis,       \* the ContractAnalysis object handed to an operation
    readBack,       \* data of the useStoredAnalysis query
    searchTerm,     \* ContractViewer state searchTerm
    selectedClause, \* ContractViewer prop selectedClause
    highlighted,    \* ContractViewer memo highlightedContent
    explorerClauses,\* ClauseExplorer sortedClauses
    insights,       \* what RiskInsights derives from the analysis
    exportData,     \* the object handleExportAnalysis serialises
    dashboard,      \* state of the Dashboard component and what it displays
    qa,             \* state of the Q&A modal and its questions in flight
    modal,          \* state of the UploadModal component
    pipelines       \* the runs of handleUpload, finished or in flight

callVars == <<pc, contractText, title, domain, config, systemPrompt, result,
              error, analysisData, raised, question, qaAnswer, upload>>

keyVars == <<aiInstance, apiKeyPromise, configRequests>>

storeVars == <<localStorage, storeCount, analysis, readBack>>

viewVars == <<searchTerm, selectedClause, highlighted, explorerClauses, insights,
              exportData>>

uiVars == <<dashboard, qa, modal, pipelines>>

vars == <<callVars, keyVars, calls, storeVars, viewVars, uiVars>>

(***************************************************************************)
(* Bounds                                                                  *)
(***************************************************************************)
MaxWords == 2      \* words in a contract text given to the classifier
MaxClauses == 2    \* clauses in a model answer
MaxIndex == 4      \* largest clause index in a model answer

None == "<none>"                      \* no string value yet
NoRecord == [none |-> TRUE]           \* no record value yet
Undefined == [undefined |-> TRUE]     \* the value `undefined`
NullPromise == [state |-> "null", value |-> ""]

(***************************************************************************)
(* String helpers: String.prototype.toLowerCase, substring, includes and   *)
(* the regular-expression classes \w and \b.                               *)
(***************************************************************************)
LowerOf ==
    [c \in {"A","B","C","D","E","F","G","H","I","J","K","L","M","N","O","P",
            "Q","R","S","T","U","V","W","X","Y","Z"} |->
        CASE c = "A" -> "a" [] c = "B" -> "b" [] c = "C" -> "c" [] c = "D" -> "d"
          [] c = "E" -> "e" [] c = "F" -> "f" [] c = "G" -> "g" [] c = "H" -> "h"
          [] c = "I" -> "i" [] c = "J" -> "j" [] c = "K" -> "k" [] c = "L" -> "l"
          [] c = "M" -> "m" [] c = "N" -> "n" [] c = "O" -> "o" [] c = "P" -> "p"
          [] c = "Q" -> "q" [] c = "R" -> "r" [] c = "S" -> "s" [] c = "T" -> "t"
          [] c = "U" -> "u" [] c = "V" -> "v" [] c = "W" -> "w" [] c = "X" -> "x"
          [] c = "Y" -> "y" [] c = "Z" -> "z"]

RECURSIVE toLowerCase(_)
toLowerCase(s) ==
    IF Len(s) = 0 THEN ""
    ELSE LET c == SubSeq(s, 1, 1)
         IN  (IF c \in DOMAIN LowerOf THEN LowerOf[c] ELSE c)
                 \o toLowerCase(SubSeq(s, 2, Len(s)))

Min(a, b) == IF a < b THEN a ELSE b
Max(a, b) == IF a > b THEN a ELSE b

\* String.prototype.substring(start, end): both arguments are clamped to
\* 0..length and swapped when start > end.
substring(s, start, end) ==
    LET a == Min(Max(start, 0), Len(s))
        b == Min(Max(end, 0), Len(s))
    IN  SubSeq(s, Min(a, b) + 1, Max(a, b))

\* String.prototype.includes
includes(s, sub) ==
    \E i \in 1..(Len(s) - Len(sub) + 1) : SubSeq(s, i, i + Len(sub) - 1) = sub

\* \w of a regular expression without the u flag
WordChars ==
    {"a","b","c","d","e","f","g","h","i","j","k","l","m","n","o","p","q","r",
     "s","t","u","v","w","x","y","z","0","1","2","3","4","5","6","7","8","9",
     "_"} \cup DOMAIN LowerOf

IsWordAt(s, i) == i >= 1 /\ i <= Len(s) /\ SubSeq(s, i, i) \in WordChars

\* \b between character i and character i+1 of s (i in 0..Len(s))
WordBoundary(s, i) == IsWordAt(s, i) # IsWordAt(s, i + 1)

\* text.match(/\b(k1|k2|...)\b/) is not null
matches(text, keywords) ==
    \E k \in keywords :
        \E i \in 1..(Len(text) - Len(k) + 1) :
            /\ SubSeq(text, i, i + Len(k) - 1) = k
            /\ WordBoundary(text, i - 1)
            /\ WordBoundary(text, i + Len(k) - 1)

(***************************************************************************)
(* detectContractDomain: the nine keyword groups                           *)
(***************************************************************************)
financeKeywords ==
    {"loan", "credit", "mortgage", "finance", "bank", "investment",
     "securities", "trading", "hedge fund", "private equity", "derivatives",
     "swap", "bond", "debt", "financing agreement"}

realEstateKeywords ==
    {"real estate", "property", "lease", "rental", "landlord", "tenant",
     "purchase agreement", "sale agreement", "property management",
     "commercial lease", "residential"}

insuranceKeywords ==
    {"insurance", "policy", "coverage", "premium", "claim",
     "liability insurance", "health insurance", "life insurance",
     "underwriting"}

employmentKeywords ==
    {"employment", "employee", "employer", "job", "salary", "benefits",
     "non-compete", "non-disclosure", "termination", "hiring", "hr",
     "human resources"}

technologyKeywords ==
    {"software", "technology", "saas", "api", "development", "programming",
     "data", "cloud", "hosting", "license", "intellectual property", "code"}

healthcareKeywords ==
    {"healthcare", "medical", "patient", "doctor", "hospital",
     "pharmaceutical", "clinical", "hipaa", "medical device", "treatment"}

constructionKeywords ==
    {"construction", "building", "contractor", "engineering", "architect",
     "project", "materials", "labor", "subcontractor"}

vendorKeywords ==
    {"vendor", "supplier", "procurement", "purchase order", "supply",
     "delivery", "goods", "materials", "distribution"}

professionalKeywords ==
    {"consulting", "professional services", "advisory", "legal services",
     "accounting", "audit", "tax"}

\* detectContractDomain with the technology test moved in front of the
\* finance test
detectContractDomainTechnologyFirst(text0, title0) ==
    LET text == toLowerCase(text0 \o " " \o title0)
    IN  IF matches(text, technologyKeywords) THEN "technology"
        ELSE IF matches(text, financeKeywords) THEN "finance"
        ELSE IF matches(text, realEstateKeywords) THEN "real_estate"
        ELSE IF matches(text, insuranceKeywords) THEN "insurance"
        ELSE IF matches(text, employmentKeywords) THEN "employment"
        ELSE IF matches(text, healthcareKeywords) THEN "healthcare"
        ELSE IF matches(text, constructionKeywords) THEN "construction"
        ELSE IF matches(text, vendorKeywords) THEN "vendor"
        ELSE IF matches(text, professionalKeywords) THEN "professional"
        ELSE "general"

\* detectContractDomain without its last test (professional services)
detectContractDomainNoProfessional(text0, title0) ==
    LET text == toLowerCase(text0 \o " " \o title0)
    IN  IF matches(text, financeKeywords) THEN "finance"
        ELSE IF matches(text, realEstateKeywords) THEN "real_estate"
        ELSE IF matches(text, insuranceKeywords) THEN "insurance"
        ELSE IF matches(text, employmentKeywords) THEN "employment"
        ELSE IF matches(text, technologyKeywords) THEN "technology"
        ELSE IF matches(text, healthcareKeywords) THEN "healthcare"
        ELSE IF matches(text, constructionKeywords) THEN "construction"
        ELSE IF matches(text, vendorKeywords) THEN "vendor"
        ELSE "general"

detectContractDomain(text0, title0) ==
    LET text == toLowerCase(text0 \o " " \o title0)
    IN  IF matches(text, financeKeywords) THEN "finance"
        ELSE IF matches(text, realEstateKeywords) THEN "real_estate"
        ELSE IF matches(text, insuranceKeywords) THEN "insurance"
        ELSE IF matches(text, employmentKeywords) THEN "employment"
        ELSE IF matches(text, technologyKeywords) THEN "technology"
        ELSE IF matches(text, healthcareKeywords) THEN "healthcare"
        ELSE IF matches(text, constructionKeywords) THEN "construction"
        ELSE IF matches(text, vendorKeywords) THEN "vendor"
        ELSE IF matches(text, professionalKeywords) THEN "professional"
        ELSE "general"

(***************************************************************************)
(* domainConfig: the table built in analyzeContract.  penaltyMultiplier is *)
(* in tenths.  Three variants of the table with one slip each come first.  *)
(***************************************************************************)
\* domainConfig with the medium and high thresholds of vendor exchanged
domainConfigThresholdsSwapped ==
    [finance      |-> [baseRisk |-> "medium-high", penaltyMultiplier |-> 12,
                       riskThresholds |-> [low |-> 30, medium |-> 60, high |-> 80]],
     real_estate  |-> [baseRisk |-> "medium-high", penaltyMultiplier |-> 11,
                       riskThresholds |-> [low |-> 30, medium |-> 60, high |-> 80]],
     insurance    |-> [baseRisk |-> "medium-high", penaltyMultiplier |-> 11,
                       riskThresholds |-> [low |-> 30, medium |-> 60, high |-> 80]],
     healthcare   |-> [baseRisk |-> "medium", penaltyMultiplier |-> 10,
                       riskThresholds |-> [low |-> 25, medium |-> 55, high |-> 75]],
     employment   |-> [baseRisk |-> "low-medium", penaltyMultiplier |-> 8,
                       riskThresholds |-> [low |-> 20, medium |-> 50, high |-> 70]],
     technology   |-> [baseRisk |-> "medium", penaltyMultiplier |-> 9,
                       riskThresholds |-> [low |-> 25, medium |-> 55, high |-> 75]],
     construction |-> [baseRisk |-> "medium", penaltyMultiplier |-> 10,
                       riskThresholds |-> [low |-> 25, medium |-> 55, high |-> 75]],
     vendor       |-> [baseRisk |-> "low-medium", penaltyMultiplier |-> 7,
                       riskThresholds |-> [low |-> 20, medium |-> 65, high |-> 45]],
     professional |-> [baseRisk |-> "low-medium", penaltyMultiplier |-> 8,
                       riskThresholds |-> [low |-> 20, medium |-> 50, high |-> 70]],
     general      |-> [baseRisk |-> "medium", penaltyMultiplier |-> 9,
                       riskThresholds |-> [low |-> 25, medium |-> 50, high |-> 70]]]

\* domainConfig without the entry for professional
domainConfigIncomplete ==
    [finance      |-> [baseRisk |-> "medium-high", penaltyMultiplier |-> 12,
                       riskThresholds |-> [low |-> 30, medium |-> 60, high |-> 80]],
     real_estate  |-> [baseRisk |-> "medium-high", penaltyMultiplier |-> 11,
                       riskThresholds |-> [low |-> 30, medium |-> 60, high |-> 80]],
     insurance    |-> [baseRisk |-> "medium-high", penaltyMultiplier |-> 11,
                       riskThresholds |-> [low |-> 30, medium |-> 60, high |-> 80]],
     healthcare   |-> [baseRisk |-> "medium", penaltyMultiplier |-> 10,
                       riskThresholds |-> [low |-> 25, medium |-> 55, high |-> 75]],
     employment   |-> [baseRisk |-> "low-medium", penaltyMultiplier |-> 8,
                       riskThresholds |-> [low |-> 20, medium |-> 50, high |-> 70]],
     technology   |-> [baseRisk |-> "medium", penaltyMultiplier |-> 9,
                       riskThresholds |-> [low |-> 25, medium |-> 55, high |-> 75]],
     construction |-> [baseRisk |-> "medium", penaltyMultiplier |-> 10,
                       riskThresholds |-> [low |-> 25, medium |-> 55, high |-> 75]],
     vendor       |-> [baseRisk |-> "low-medium", penaltyMultiplier |-> 7,
                       riskThresholds |-> [low |-> 20, medium |-> 45, high |-> 65]],
     general      |-> [baseRisk |-> "medium", penaltyMultiplier |-> 9,
                       riskThresholds |-> [low |-> 25, medium |-> 50, high |-> 70]]]

\* domainConfig with the earlier finance multiplier 1.5
domainConfigOldMultiplier ==
    [finance      |-> [baseRisk |-> "medium-high", penaltyMultiplier |-> 15,
                       riskThresholds |-> [low |-> 30, medium |-> 60, high |-> 80]],
     real_estate  |-> [baseRisk |-> "medium-high", penaltyMultiplier |-> 11,
                       riskThresholds |-> [low |-> 30, medium |-> 60, high |-> 80]],
     insurance    |-> [baseRisk |-> "medium-high", penaltyMultiplier |-> 11,
                       riskThresholds |-> [low |-> 30, medium |-> 60, high |-> 80]],
     healthcare   |-> [baseRisk |-> "medium", penaltyMultiplier |-> 10,
                       riskThresholds |-> [low |-> 25, medium |-> 55, high |-> 75]],
     employment   |-> [baseRisk |-> "low-medium", penaltyMultiplier |-> 8,
                       riskThresholds |-> [low |-> 20, medium |-> 50, high |-> 70]],
     technology   |-> [baseRisk |-> "medium", penaltyMultiplier |-> 9,
                       riskThresholds |-> [low |-> 25, medium |-> 55, high |-> 75]],
     construction |-> [baseRisk |-> "medium", penaltyMultiplier |-> 10,
                       riskThresholds |-> [low |-> 25, medium |-> 55, high |-> 75]],
     vendor       |-> [baseRisk |-> "low-medium", penaltyMultiplier |-> 7,
                       riskThresholds |-> [low |-> 20, medium |-> 45, high |-> 65]],
     professional |-> [baseRisk |-> "low-medium", penaltyMultiplier |-> 8,
                       riskThresholds |-> [low |-> 20, medium |-> 50, high |-> 70]],
     general      |-> [baseRisk |-> "medium", penaltyMultiplier |-> 9,
                       riskThresholds |-> [low |-> 25, medium |-> 50, high |-> 70]]]

\* the table as written in analyzeContract
domainConfig ==
    [finance      |-> [baseRisk |-> "medium-high", penaltyMultiplier |-> 12,
                       riskThresholds |-> [low |-> 30, medium |-> 60, high |-> 80]],
     real_estate  |-> [baseRisk |-> "medium-high", penaltyMultiplier |-> 11,
                       riskThresholds |-> [low |-> 30, medium |-> 60, high |-> 80]],
     insurance    |-> [baseRisk |-> "medium-high", penaltyMultiplier |-> 11,
                       riskThresholds |-> [low |-> 30, medium |-> 60, high |-> 80]],
     healthcare   |-> [baseRisk |-> "medium", penaltyMultiplier |-> 10,
                       riskThresholds |-> [low |-> 25, medium |-> 55, high |-> 75]],
     employment   |-> [baseRisk |-> "low-medium", penaltyMultiplier |-> 8,
                       riskThresholds |-> [low |-> 20, medium |-> 50, high |-> 70]],
     technology   |-> [baseRisk |-> "medium", penaltyMultiplier |-> 9,
                       riskThresholds |-> [low |-> 25, medium |-> 55, high |-> 75]],
     construction |-> [baseRisk |-> "medium", penaltyMultiplier |-> 10,
                       riskThresholds |-> [low |-> 25, medium |-> 55, high |-> 75]],
     vendor       |-> [baseRisk |-> "low-medium", penaltyMultiplier |-> 7,
                       riskThresholds |-> [low |-> 20, medium |-> 45, high |-> 65]],
     professional |-> [baseRisk |-> "low-medium", penaltyMultiplier |-> 8,
                       riskThresholds |-> [low |-> 20, medium |-> 50, high |-> 70]],
     general      |-> [baseRisk |-> "medium", penaltyMultiplier |-> 9,
                       riskThresholds |-> [low |-> 25, medium |-> 50, high |-> 70]]]

\* const config = domainConfig[domain as keyof typeof domainConfig]
lookupConfig(d) == IF d \in DOMAIN domainConfig THEN domainConfig[d] ELSE Undefined

(***************************************************************************)
(* Inputs of the classifier: contract texts of up to MaxWords words joined *)
(* by single spaces, and a title.  The words cover every keyword group,    *)
(* a keyword shared by two groups, two-word keywords, upper case and       *)
(* near misses that differ from a keyword only at a word boundary.         *)
(***************************************************************************)
ClassifierWords ==
    {"loan", "lease", "policy", "salary", "SOFTWARE", "patient", "materials",
     "supplier", "audit", "loans", "hedge", "purchase", "non-compete"}

ClassifierTitles == {"", "Loan", "fund", "order", "agreement", "widgets"}

RECURSIVE joinWords(_)
joinWords(ws) ==
    IF Len(ws) = 0 THEN ""
    ELSE IF Len(ws) = 1 THEN ws[1]
    ELSE ws[1] \o " " \o joinWords(Tail(ws))

ClassifierTexts ==
    { joinWords(ws) : ws \in UNION { [1..n -> ClassifierWords] : n \in 0..MaxWords } }

InitModule ==
    /\ aiInstance = FALSE
    /\ apiKeyPromise = NullPromise
    /\ configRequests = 0

NoUpload == [file |-> NoRecord, processFileArg |-> NoRecord,
             extractorArg |-> NoRecord, processed |-> NoRecord]

NoCalls == [i \in {} |-> NoRecord]

EmptyStorage == [k \in {} |-> NoRecord]

\* the Dashboard is not mounted: showIntro starts true, no analysis is
\* current, both modals are closed and empty, no upload has run
InitUi ==
    /\ dashboard = [mounted |-> FALSE, showIntro |-> TRUE, effectPending |-> FALSE,
                    displayed |-> "nothing", introStep |-> 0,
                    currentAnalysisId |-> None, showUploadModal |-> FALSE,
                     toast |-> None]
    /\ qa = [showQAModal |-> FALSE, qaQuestion |-> "", qaResponse |-> "",
             qaLoading |-> FALSE, asked |-> None]
    /\ modal = [selectedFile |-> NoRecord, progress |-> 0,
                uploadPending |-> FALSE, analysisPending |-> FALSE]
    /\ pipelines = <<>>

\* nothing stored, nothing rendered, no concurrent calls
InitRest ==
    /\ InitUi
    /\ calls = NoCalls
    /\ localStorage = EmptyStorage
    /\ storeCount = 0
    /\ analysis = NoRecord
    /\ readBack = NoRecord
    /\ searchTerm = ""
    /\ selectedClause = None
    /\ highlighted = None
    /\ explorerClauses = <<>>
    /\ insights = NoRecord
    /\ exportData = NoRecord

InitLocals ==
    /\ domain = None
    /\ config = NoRecord
    /\ systemPrompt = NoRecord
    /\ result = NoRecord
    /\ error = None
    /\ analysisData = NoRecord
    /\ raised = None
    /\ question = None
    /\ qaAnswer = None
    /\ upload = NoUpload

\* detectContractDomain applied to one input, followed by the table lookup
InitClassify ==
    /\ pc = "classify"
    /\ contractText \in ClassifierTexts
    /\ title \in ClassifierTitles
    /\ InitLocals
    /\ InitModule
    /\ InitRest

Classify ==
    /\ pc = "classify"
    /\ domain' = detectContractDomain(contractText, title)
    /\ config' = lookupConfig(domain')
    /\ pc' = "classified"
    /\ UNCHANGED <<contractText, title, systemPrompt, result, error,
                   analysisData, raised, question, qaAnswer, upload>>
    /\ UNCHANGED <<keyVars, calls, storeVars, viewVars, uiVars>>

NextClassify == Classify

SpecClassify == InitClassify /\ [][NextClassify]_vars

(***************************************************************************)
(* Properties of the classifier                                            *)
(***************************************************************************)
DomainTags ==
    {"finance", "real_estate", "insurance", "healthcare", "employment",
     "technology", "construction", "vendor", "professional", "general"}

PriorityOrder ==
    <<"finance", "real_estate", "insurance", "employment", "technology",
      "healthcare", "construction", "vendor", "professional">>

KeywordsOf ==
    [finance |-> financeKeywords, real_estate |-> realEstateKeywords,
     insurance |-> insuranceKeywords, employment |-> employmentKeywords,
     technology |-> technologyKeywords, healthcare |-> healthcareKeywords,
     construction |-> constructionKeywords, vendor |-> vendorKeywords,
     professional |-> professionalKeywords]

\* group number i has a word-boundary match in lower(text + ' ' + title)
GroupMatches(i) ==
    matches(toLowerCase(contractText \o " " \o title), KeywordsOf[PriorityOrder[i]])

\* C1: the tag returned is the tag of the first group, in the order finance,
\* real_estate, insurance, employment, technology, healthcare, construction,
\* vendor, professional, that matches the lower-cased text + ' ' + title; a
\* match of a later group never changes it, and the tag depends on the input
\* only.
C1_FirstMatchWins ==
    pc = "classified" =>
        \A i \in 1..Len(PriorityOrder) :
            (GroupMatches(i) /\ \A j \in 1..(i - 1) : ~GroupMatches(j))
                => domain = PriorityOrder[i]

\* a text matching both the finance and the technology group was classified
\* as finance
C1_Witness ==
    /\ pc = "classified"
    /\ GroupMatches(1)
    /\ GroupMatches(5)
    /\ domain = "finance"

\* C2: the tag is 'general' exactly when none of the nine groups matches, it
\* is always one of the ten domain tags, no error is raised and no other
\* state of the module is touched.
C2_GeneralIffNoMatch ==
    pc = "classified" =>
        /\ domain \in DomainTags
        /\ (domain = "general") <=> (\A i \in 1..Len(PriorityOrder) : ~GroupMatches(i))
        /\ error = None
        /\ result = NoRecord
        /\ aiInstance = FALSE
        /\ apiKeyPromise = NullPromise
        /\ localStorage = EmptyStorage

\* a non-empty text that only nearly contains a keyword was classified general
C2_Witness ==
    /\ pc = "classified"
    /\ domain = "general"
    /\ includes(contractText, "loans")

(***************************************************************************)
(* analyzeContract                                                         *)
(***************************************************************************)
AnalysisTexts ==
    {"This loan agreement carries a 15% interest rate...",
     "Tenant shall pay rent",
     "The premium is due monthly",
     "Salary is paid monthly",
     "Hosting is provided as is",
     "Patient records stay private",
     "Contractor provides labor",
     "Supplier ships goods",
     "Audit fees apply",
     "Both parties agree.",
     "Pay"}

\* "Contract Analysis" is the default value of the parameter title
AnalysisTitles == {"Contract Analysis", "Loan"}

\* outcomes of fetchApiKey: the key, or the Error thrown by its catch block
ApiKeys == {"key-1"}
ConfigFailures ==
    {"Config API returned 500: Internal Server Error",
     "Gemini API key not found in configuration"}

fetchApiKeyError(msg) ==
    "Config API error: " \o msg \o ". On Vercel ensure you deploy the repository root so /api functions (api/config) are available, or set VITE_GEMINI_API_KEY at build time."

\* errors thrown by ai.models.generateContent
ApiFailures == {"got status: 500 Internal Server Error", "fetch failed"}

\* a catch block that hands on the error it caught
analyzeContractCatchRethrow(msg) == msg

\* the catch block of analyzeContract
analyzeContractCatch(msg) ==
    IF includes(msg, "500")
    THEN "Gemini API is currently experiencing issues. This might be due to API quota limits, incorrect configuration, or temporary service issues. Please check your Gemini API key in Replit Secrets and try again later."
    ELSE "Failed to analyze contract: " \o msg

\* buildSystemPrompt with the Medium band starting at low instead of low + 1
buildSystemPromptOverlap(d, c) ==
    [domain |-> d,
     penaltyMultiplier |-> c.penaltyMultiplier,
     riskLevels |->
        [low    |-> [from |-> 0, to |-> c.riskThresholds.low],
         medium |-> [from |-> c.riskThresholds.low, to |-> c.riskThresholds.medium],
         high   |-> [from |-> c.riskThresholds.medium + 1, to |-> 100]]]

\* the RISK LEVEL ASSIGNMENT lines of the prompt and the adjustment factor
buildSystemPrompt(d, c) ==
    [domain |-> d,
     penaltyMultiplier |-> c.penaltyMultiplier,
     riskLevels |->
        [low    |-> [from |-> 0, to |-> c.riskThresholds.low],
         medium |-> [from |-> c.riskThresholds.low + 1, to |-> c.riskThresholds.medium],
         high   |-> [from |-> c.riskThresholds.medium + 1, to |-> 100]]]

(***************************************************************************)
(* Answers of the model: the JSON object of response.text, as a function   *)
(* from its keys to their values.                                          *)
(***************************************************************************)
ScoreValues == {-1, 0, 50, 100, 101}
ConfidenceValues == {-1, 0, 85, 100, 101}

BreakdownKeys ==
    {"payment", "liability", "termination", "confidentiality",
     "intellectual_property"}

BaseBreakdown == [k \in BreakdownKeys |-> 40]

BaseAnswer ==
    [riskScore |-> 35,
     clauses |-> <<>>,
     keyIssues |-> <<>>,
     missingProtections |-> <<>>,
     riskBreakdown |-> BaseBreakdown,
     plainLanguageSummary |-> "summary",
     confidence |-> 85]

AnswerClause(text, s, e, c, score) ==
    [id |-> "clause_" \o ToString(s) \o "_" \o ToString(e),
     title |-> "Clause",
     content |-> c,
     riskLevel |-> "medium",
     riskScore |-> score,
     explanation |-> "standard term",
     suggestions |-> <<>>,
     startIndex |-> s,
     endIndex |-> e]

Indices == (0 - 1)..MaxIndex

\* spans of one or two characters inside 0..MaxIndex
ShortSpans ==
    { sp \in (0..MaxIndex) \X (0..MaxIndex) : sp[1] < sp[2] /\ sp[2] - sp[1] <= 2 }

\* one clause, any pair of indices, its content the addressed text or not
SingleClauseAnswersOf(text) ==
    { [BaseAnswer EXCEPT !.clauses =
          <<AnswerClause(text, t[1], t[2],
                         IF t[3] = "exact" THEN substring(text, t[1], t[2]) ELSE "zzz",
                         40)>>] :
        t \in Indices \X Indices \X {"exact", "other"} }

\* several clauses, each with ordered indices and the addressed text
MultiClauseAnswersOf(text) ==
    { [BaseAnswer EXCEPT !.clauses =
          [i \in DOMAIN sps |->
              AnswerClause(text, sps[i][1], sps[i][2],
                           substring(text, sps[i][1], sps[i][2]), 40)]] :
        sps \in UNION { [1..n -> ShortSpans] : n \in 2..MaxClauses } }

ScoreAnswersOf(text) ==
    { [BaseAnswer EXCEPT !.riskScore = v] : v \in ScoreValues }
    \cup { [BaseAnswer EXCEPT !.confidence = v] : v \in ConfidenceValues }
    \cup { [BaseAnswer EXCEPT !.clauses =
               <<AnswerClause(text, 0, 1, substring(text, 0, 1), v)>>] :
            v \in ScoreValues }
    \cup { [BaseAnswer EXCEPT !.riskBreakdown = [BaseBreakdown EXCEPT ![k] = v]] :
            k \in BreakdownKeys, v \in ScoreValues }

BreakdownAnswers ==
    { [BaseAnswer EXCEPT !.riskBreakdown = [k \in (BreakdownKeys \ {m}) |-> 40]] :
        m \in BreakdownKeys }
    \cup { [BaseAnswer EXCEPT !.riskBreakdown =
               [k \in (BreakdownKeys \cup {"compliance"}) |-> 40]] }

ModelAnswers(text) ==
    SingleClauseAnswersOf(text) \cup MultiClauseAnswersOf(text)
        \cup ScoreAnswersOf(text) \cup BreakdownAnswers

\* crypto.randomUUID() and new Date() (milliseconds since the epoch)
Uuids == {"uuid-1", "uuid-2"}
Dates == {1, 2}

\* a Date object, and the string Date.prototype.toISOString gives for it
DateValue(d) == [type |-> "Date", time |-> d]
toISOString(d) == "1970-01-01T00:00:00.00" \o ToString(d) \o "Z"
StringValue(str) == [type |-> "string", value |-> str]

\* JSON.stringify of an analysis record: a Date is written as its ISO string
\* (Date.prototype.toJSON); numbers, strings, arrays and objects are kept
jsonStringify(a) ==
    [k \in DOMAIN a |->
        IF k = "analysisDate" /\ a[k].type = "Date"
        THEN StringValue(toISOString(a[k].time))
        ELSE a[k]]

\* JSON.parse without a reviver: every JSON string stays a string
jsonParse(text) == text

\* return { id, title, content, ...analysisData, analysisDate }
assemble(id, t, text, data, date) ==
    [analysisDate |-> date] @@ data
        @@ [id |-> id, title |-> t, content |-> text]

\* answers that carry keys of the record itself: the JSON of a record that
\* analyzeContract returned before, or an id, title or content of their own
KeyedAnswersOf(text, t) ==
    { jsonParse(jsonStringify(assemble(id, t, text, BaseAnswer, DateValue(d)))) :
        id \in Uuids, d \in Dates }
    \cup { [id |-> "analysis_1"] @@ BaseAnswer,
           [title |-> "Title by the model"] @@ BaseAnswer,
           [content |-> "Text by the model"] @@ BaseAnswer }

Init ==
    /\ pc = "idle"
    /\ contractText = ""
    /\ title = ""
    /\ InitLocals
    /\ InitModule
    /\ InitRest

\* getAI looking at the client only, not at the pending promise
getAIStartsFetchNoPromiseCheck(ai, promise) == ~ai

\* getAI asking for the key again after a rejection
getAIStartsFetchAfterRejection(ai, promise) ==
    ~ai /\ promise.state \in {"null", "rejected"}

\* getAI: fetchApiKey is called only when there is neither a client nor a
\* promise of the key
getAIStartsFetch(ai, promise) == ~ai /\ promise = NullPromise

\* the module state after the synchronous part of getAI
getAIBegin ==
    IF getAIStartsFetch(aiInstance, apiKeyPromise)
    THEN /\ apiKeyPromise' = [state |-> "pending", value |-> ""]
         /\ configRequests' = configRequests + 1
    ELSE UNCHANGED <<apiKeyPromise, configRequests>>

\* what the caller of getAI can do once the await is over
getAISettled == aiInstance \/ apiKeyPromise.state \in {"fulfilled", "rejected"}
getAIThrows == ~aiInstance /\ apiKeyPromise.state = "rejected"

\* analyzeContract(contractText, title) up to `await getAI()`; getAI starts
\* fetchApiKey when there is neither a client nor a pending promise
analyzeContractCall(text, t) ==
    /\ pc = "idle"
    /\ contractText' = text
    /\ title' = t
    /\ domain' = None
    /\ config' = NoRecord
    /\ systemPrompt' = NoRecord
    /\ result' = NoRecord
    /\ error' = None
    /\ analysisData' = NoRecord
    /\ raised' = None
    /\ getAIBegin
    /\ pc' = "getAI"
    /\ UNCHANGED <<aiInstance, question, qaAnswer, upload>>
    /\ UNCHANGED <<calls, storeVars, viewVars, uiVars>>

\* fetchApiKey settles: with the key (from /api/config or the build-time
\* fallback) or with the Error of its catch block
fetchApiKeySettles ==
    /\ apiKeyPromise.state = "pending"
    /\ \/ \E k \in ApiKeys :
            apiKeyPromise' = [state |-> "fulfilled", value |-> k]
       \/ \E m \in ConfigFailures :
            apiKeyPromise' = [state |-> "rejected", value |-> fetchApiKeyError(m)]
    /\ UNCHANGED <<callVars, aiInstance, configRequests, calls, storeVars, viewVars, uiVars>>

\* getAI returns (or throws); then detectContractDomain, the lookup in
\* domainConfig, the prompt and the call of generateContent
analyzeContractPrompt ==
    /\ pc = "getAI"
    /\ getAISettled
    /\ IF getAIThrows
       THEN /\ raised' = apiKeyPromise.value
            /\ error' = analyzeContractCatch(raised')
            /\ pc' = "failed"
            /\ UNCHANGED <<domain, config, systemPrompt, aiInstance>>
       ELSE /\ aiInstance' = TRUE
            /\ domain' = detectContractDomain(contractText, title)
            /\ config' = lookupConfig(domain')
            /\ IF config' = Undefined
               THEN /\ raised' = "Cannot read properties of undefined (reading 'description')"
                    /\ error' = analyzeContractCatch(raised')
                    /\ pc' = "failed"
                    /\ UNCHANGED systemPrompt
               ELSE /\ systemPrompt' = buildSystemPrompt(domain', config')
                    /\ pc' = "generate"
                    /\ UNCHANGED <<error, raised>>
    /\ UNCHANGED <<contractText, title, result, apiKeyPromise, analysisData,
                   configRequests, question, qaAnswer, upload>>
    /\ UNCHANGED <<calls, storeVars, viewVars, uiVars>>

\* generateContent rejects
generateContentFails ==
    /\ pc = "generate"
    /\ \E m \in ApiFailures :
            /\ raised' = m
            /\ error' = analyzeContractCatch(m)
    /\ pc' = "failed"
    /\ UNCHANGED <<contractText, title, domain, config, systemPrompt, result,
                   analysisData, question, qaAnswer, upload>>
    /\ UNCHANGED <<keyVars, calls, storeVars, viewVars, uiVars>>

\* response.text is empty, or is not JSON
generateContentUnusable ==
    /\ pc = "generate"
    /\ \E m \in {"Empty response from Gemini API",
                 "Unexpected token 'H', \"Here is th\"... is not valid JSON"} :
            /\ raised' = m
            /\ error' = analyzeContractCatch(m)
    /\ pc' = "failed"
    /\ UNCHANGED <<contractText, title, domain, config, systemPrompt, result,
                   analysisData, question, qaAnswer, upload>>
    /\ UNCHANGED <<keyVars, calls, storeVars, viewVars, uiVars>>

\* response.text parses: the record is assembled and returned
analyzeContractReturn ==
    /\ pc = "generate"
    /\ \E answer \in ModelAnswers(contractText) \cup KeyedAnswersOf(contractText, title),
          id \in Uuids, date \in Dates :
            /\ analysisData' = answer
            /\ result' = assemble(id, title, contractText, answer, DateValue(date))
    /\ pc' = "done"
    /\ UNCHANGED <<contractText, title, domain, config, systemPrompt, error,
                   raised, question, qaAnswer, upload>>
    /\ UNCHANGED <<keyVars, calls, storeVars, viewVars, uiVars>>

\* the caller has taken the outcome: the call and its locals are gone, the
\* module state stays
callerContinues ==
    /\ pc \in {"done", "failed", "answered", "processed"}
    /\ pc' = "idle"
    /\ contractText' = ""
    /\ title' = ""
    /\ domain' = None
    /\ config' = NoRecord
    /\ systemPrompt' = NoRecord
    /\ result' = NoRecord
    /\ error' = None
    /\ analysisData' = NoRecord
    /\ raised' = None
    /\ question' = None
    /\ qaAnswer' = None
    /\ upload' = NoUpload
    /\ UNCHANGED <<keyVars, calls, storeVars, viewVars, uiVars>>

(***************************************************************************)
(* askContractQuestion                                                     *)
(***************************************************************************)

Questions == {"When is rent due?"}

QuestionTexts == {"Pay rent"}

\* response.text of the Q&A call; the empty string is falsy
ResponseTexts == {"", "Rent is due on the first day of the month."}

\* the catch block of askContractQuestion
askContractQuestionCatch(msg) == "Failed to answer question: " \o msg

\* a catch block that rethrows what it caught
rethrow(msg) == msg

askContractQuestionCall(text, q) ==
    /\ pc = "idle"
    /\ contractText' = text
    /\ question' = q
    /\ qaAnswer' = None
    /\ error' = None
    /\ raised' = None
    /\ getAIBegin
    /\ pc' = "askGetAI"
    /\ UNCHANGED <<title, domain, config, systemPrompt, result, analysisData,
                   upload, aiInstance>>
    /\ UNCHANGED <<calls, storeVars, viewVars, uiVars>>

\* getAI returns (or throws) and generateContent is called
askContractQuestionPrompt ==
    /\ pc = "askGetAI"
    /\ getAISettled
    /\ IF getAIThrows
       THEN /\ raised' = apiKeyPromise.value
            /\ error' = askContractQuestionCatch(raised')
            /\ pc' = "failed"
            /\ UNCHANGED aiInstance
       ELSE /\ aiInstance' = TRUE
            /\ pc' = "askGenerate"
            /\ UNCHANGED <<error, raised>>
    /\ UNCHANGED <<contractText, title, domain, config, systemPrompt, result,
                   analysisData, question, qaAnswer, upload>>
    /\ UNCHANGED <<apiKeyPromise, configRequests, calls, storeVars, viewVars, uiVars>>

askGenerateContentFails ==
    /\ pc = "askGenerate"
    /\ \E m \in ApiFailures :
            /\ raised' = m
            /\ error' = askContractQuestionCatch(m)
    /\ pc' = "failed"
    /\ UNCHANGED <<contractText, title, domain, config, systemPrompt, result,
                   analysisData, question, qaAnswer, upload>>
    /\ UNCHANGED <<keyVars, calls, storeVars, viewVars, uiVars>>

askContractQuestionReturn ==
    /\ pc = "askGenerate"
    /\ \E text \in ResponseTexts :
            qaAnswer' = IF text = ""
                        THEN "I couldn't provide an answer to your question."
                        ELSE text
    /\ pc' = "answered"
    /\ UNCHANGED <<contractText, title, domain, config, systemPrompt, result,
                   error, analysisData, raised, question, upload>>
    /\ UNCHANGED <<keyVars, calls, storeVars, viewVars, uiVars>>

(***************************************************************************)
(* File processing: validateFileSize, validateFileType, processFile        *)
(***************************************************************************)

\* validateFileSize: maxSizeMB = 10, maxSizeBytes = maxSizeMB * 1024 * 1024
maxSizeMB == 10
maxSizeBytes == maxSizeMB * 1024 * 1024

PdfMime == "application/pdf"
DocxMime == "application/vnd.openxmlformats-officedocument.wordprocessingml.document"
allowedTypes == {PdfMime, DocxMime}
allowedExtensions == {"pdf", "docx"}

\* name.toLowerCase().split('.').pop(): the text after the last dot, the whole
\* name when it has no dot
extensionOf(name) ==
    LET lower == toLowerCase(name)
        dots == {i \in 1..Len(lower) : SubSeq(lower, i, i) = "."}
    IN  IF dots = {} THEN lower
        ELSE SubSeq(lower, (CHOOSE i \in dots : \A j \in dots : j <= i) + 1, Len(lower))

\* extension.toUpperCase() for the two extensions that get that far
toUpperCase(extension) ==
    CASE extension = "pdf" -> "PDF"
      [] extension = "docx" -> "DOCX"

\* validateFileSize with >= in place of >
validateFileSizeThrowsAtLimit(file) == file.size >= maxSizeBytes

validateFileSizeThrows(file) == file.size > maxSizeBytes

validateFileTypeThrows(file) ==
    file.type \notin allowedTypes /\ extensionOf(file.name) \notin allowedExtensions

\* a processFile that trusts the MIME type as validateFileType does
processFileUnsupportedByMime(file) ==
    /\ extensionOf(file.name) = "" \/ extensionOf(file.name) \notin {"pdf", "docx"}
    /\ file.type \notin allowedTypes

\* the extension check at the top of processFile; '' is falsy
processFileUnsupported(file) ==
    extensionOf(file.name) = "" \/ extensionOf(file.name) \notin {"pdf", "docx"}

FileSizeError == "File size exceeds 10MB limit. Please upload a smaller file."
FileTypeError == "Invalid file type. Please upload a PDF or DOCX file."
UnsupportedError == "Unsupported file type. Please upload a PDF or DOCX file."
PdfIssuesError == "PDF processing is currently experiencing issues. For best results, please convert your PDF to DOCX format and upload that instead. DOCX files provide more reliable text extraction."
NoTextError(extension) ==
    "No readable text found in the " \o toUpperCase(extension) \o " file. Please ensure the document contains extractable text content."

FileNames == {"lease.pdf", "Lease.DOCX", "notes.txt", "pdf", "lease."}
FileTypes == {PdfMime, DocxMime, "text/plain", ""}
FileSizes == {maxSizeBytes - 1, maxSizeBytes, maxSizeBytes + 1}
Files == [name : FileNames, type : FileTypes, size : FileSizes]

IsWhitespace(c) == c \in {" ", "\n", "\t"}

\* content.split(/\s+/).filter(word => word.length > 0).length
wordCount(content) ==
    Cardinality({i \in 1..Len(content) :
        /\ ~IsWhitespace(SubSeq(content, i, i))
        /\ (i = 1 \/ IsWhitespace(SubSeq(content, i - 1, i - 1)))})

\* str.trim().length === 0
trimIsEmpty(str) == \A i \in 1..Len(str) : IsWhitespace(SubSeq(str, i, i))

RECURSIVE join(_, _)
join(parts, sep) ==
    IF Len(parts) = 0 THEN ""
    ELSE IF Len(parts) = 1 THEN parts[1]
    ELSE parts[1] \o sep \o join(Tail(parts), sep)

\* pages of a PDF explored
MaxPages == 2

\* what pdf.getPage(i) / getTextContent give for a page: its text, or a failure
PageFails == "<page fails>"
PageOutcomes == {"Pay rent", " ", PageFails}
PdfDocuments == UNION {[1..n -> PageOutcomes] : n \in 0..MaxPages}

\* textContent of processPDF: a failed page leaves a placeholder
textContentOf(pages) ==
    [i \in 1..Len(pages) |->
        IF pages[i] = PageFails
        THEN "[Page " \o ToString(i) \o " content could not be extracted]"
        ELSE pages[i]]

\* errors of pdfjs (getDocument) and of mammoth (extractRawText)
PdfFailures == {"Setting up fake worker failed", "Invalid PDF structure"}
DocxFailures == {"Can't find end of central directory : is this a zip file ?"}
DocxTexts == {"Tenant shall pay rent", " \n"}

\* the mutationFn of useFileUpload: both validators, then processFile up to
\* its first await
useFileUploadMutate(file) ==
    /\ pc = "idle"
    /\ raised' = None
    /\ IF validateFileSizeThrows(file)
       THEN /\ error' = FileSizeError
            /\ pc' = "failed"
            /\ upload' = [NoUpload EXCEPT !.file = file]
       ELSE IF validateFileTypeThrows(file)
       THEN /\ error' = FileTypeError
            /\ pc' = "failed"
            /\ upload' = [NoUpload EXCEPT !.file = file]
       ELSE IF processFileUnsupported(file)
       THEN /\ error' = rethrow(UnsupportedError)
            /\ pc' = "failed"
            /\ upload' = [NoUpload EXCEPT !.file = file, !.processFileArg = file]
       ELSE /\ error' = None
            /\ pc' = "extracting"
            /\ upload' = [NoUpload EXCEPT !.file = file, !.processFileArg = file,
                                          !.extractorArg = file]
    /\ UNCHANGED <<contractText, title, domain, config, systemPrompt, result,
                   analysisData, question, qaAnswer>>
    /\ UNCHANGED <<keyVars, calls, storeVars, viewVars, uiVars>>

\* the extractor rejects: processPDF replaces the error and processFile
\* replaces it again; an error of processDOCX is rethrown as it is
extractorFails ==
    /\ pc = "extracting"
    /\ IF extensionOf(upload.file.name) = "pdf"
       THEN \E m \in PdfFailures :
                /\ raised' = m
                /\ error' = rethrow(PdfIssuesError)
       ELSE \E m \in DocxFailures :
                /\ raised' = m
                /\ error' = rethrow(m)
    /\ pc' = "failed"
    /\ UNCHANGED <<contractText, title, domain, config, systemPrompt, result,
                   analysisData, question, qaAnswer, upload>>
    /\ UNCHANGED <<keyVars, calls, storeVars, viewVars, uiVars>>

\* the extractor delivers: processPDF joins the pages (and throws when they
\* hold no text), processDOCX hands on result.value; processFile counts words
extractorReturns ==
    /\ pc = "extracting"
    /\ LET file == upload.file
           extension == extensionOf(file.name)
       IN  IF extension = "pdf"
           THEN \E pages \in PdfDocuments :
                   LET textContent == textContentOf(pages)
                       content == join(textContent, "\n\n")
                   IN  IF trimIsEmpty(join(textContent, ""))
                       THEN /\ error' = rethrow(PdfIssuesError)
                            /\ pc' = "failed"
                            /\ UNCHANGED upload
                       ELSE IF wordCount(content) = 0
                       THEN /\ error' = rethrow(NoTextError(extension))
                            /\ pc' = "failed"
                            /\ UNCHANGED upload
                       ELSE /\ upload' = [upload EXCEPT !.processed =
                                   [content |-> content, filename |-> file.name,
                                    fileType |-> extension, pageCount |-> Len(pages),
                                    wordCount |-> wordCount(content)]]
                            /\ pc' = "processed"
                            /\ UNCHANGED error
           ELSE \E content \in DocxTexts :
                   IF wordCount(content) = 0
                   THEN /\ error' = rethrow(NoTextError(extension))
                        /\ pc' = "failed"
                        /\ UNCHANGED upload
                   ELSE /\ upload' = [upload EXCEPT !.processed =
                               [content |-> content, filename |-> file.name,
                                fileType |-> extension,
                                wordCount |-> wordCount(content)]]
                        /\ pc' = "processed"
                        /\ UNCHANGED error
    /\ UNCHANGED <<contractText, title, domain, config, systemPrompt, result,
                   analysisData, raised, question, qaAnswer>>
    /\ UNCHANGED <<keyVars, calls, storeVars, viewVars, uiVars>>

Next ==
    \/ \E text \in AnalysisTexts, t \in AnalysisTitles : analyzeContractCall(text, t)
    \/ fetchApiKeySettles
    \/ analyzeContractPrompt
    \/ generateContentFails
    \/ generateContentUnusable
    \/ analyzeContractReturn
    \/ \E text \in QuestionTexts, q \in Questions : askContractQuestionCall(text, q)
    \/ askContractQuestionPrompt
    \/ askGenerateContentFails
    \/ askContractQuestionReturn
    \/ \E file \in Files : useFileUploadMutate(file)
    \/ extractorFails
    \/ extractorReturns
    \/ callerContinues

Spec == Init /\ [][Next]_vars

(***************************************************************************)
(* Properties of the configuration table and the prompt                    *)
(***************************************************************************)
ConfigLookedUp == config # NoRecord /\ config # Undefined

ThresholdsOrdered(t) == 0 <= t.low /\ t.low < t.medium /\ t.medium < t.high /\ t.high <= 100

\* C3: for each of the ten domain tags the configured riskThresholds satisfy
\* 0 <= low < medium < high <= 100, and so does every configuration that
\* analyzeContract looks up.
C3_ThresholdsOrdered ==
    /\ \A d \in DomainTags :
          d \in DOMAIN domainConfig /\ ThresholdsOrdered(domainConfig[d].riskThresholds)
    /\ ConfigLookedUp => ThresholdsOrdered(config.riskThresholds)

\* the vendor thresholds 20/45/65 have been looked up for a vendor contract
C3_Witness ==
    /\ pc = "generate"
    /\ domain = "vendor"
    /\ config.riskThresholds = [low |-> 20, medium |-> 45, high |-> 65]

\* C4: every tag detectContractDomain returns has an entry in domainConfig:
\* the looked-up config is never undefined and analyzeContract never fails
\* while building the prompt.
C4_ConfigNeverUndefined ==
    /\ config # Undefined
    /\ domain # None => (domain \in DOMAIN domainConfig /\ config = domainConfig[domain])
    /\ pc = "failed" => ~includes(error, "Cannot read properties of undefined")

\* the last tag of the cascade has been returned and its entry found
C4_Witness ==
    /\ pc = "generate"
    /\ domain = "professional"
    /\ config = domainConfig["professional"]
    /\ systemPrompt.penaltyMultiplier = 8

LoanScenario ==
    /\ contractText = "This loan agreement carries a 15% interest rate..."
    /\ title = "Loan"

NoKeywordInput == \A i \in 1..Len(PriorityOrder) : ~GroupMatches(i)

\* C5: the loan text with title 'Loan' resolves to finance with multiplier
\* 1.2 and thresholds 30/60/80; an input without any domain keyword resolves
\* to general with multiplier 0.9 and thresholds 25/50/70; the vendor entry
\* has multiplier 0.7 and thresholds 20/45/65.
C5_ListedValues ==
    /\ (domain # None /\ LoanScenario) =>
          /\ domain = "finance"
          /\ config.penaltyMultiplier = 12
          /\ config.riskThresholds = [low |-> 30, medium |-> 60, high |-> 80]
    /\ (domain # None /\ NoKeywordInput) =>
          /\ domain = "general"
          /\ config.penaltyMultiplier = 9
          /\ config.riskThresholds = [low |-> 25, medium |-> 50, high |-> 70]
    /\ domain = "vendor" =>
          /\ config.penaltyMultiplier = 7
          /\ config.riskThresholds = [low |-> 20, medium |-> 45, high |-> 65]

\* the loan scenario has been classified and its configuration looked up
C5_Witness ==
    /\ LoanScenario
    /\ pc = "generate"
    /\ domain = "finance"
    /\ systemPrompt.penaltyMultiplier = 12

InBand(s, b) == b.from <= s /\ s <= b.to

RiskLevelNames == {"low", "medium", "high"}

\* C6: the bands written into the prompt put every score of 0..100 into
\* exactly one band: Low iff s <= low, Medium iff low < s <= medium, High iff
\* s > medium; no band is empty.
C6_BandsPartition ==
    systemPrompt # NoRecord =>
        LET b == systemPrompt.riskLevels
            t == domainConfig[systemPrompt.domain].riskThresholds
        IN  /\ \A s \in 0..100 :
                /\ Cardinality({ l \in RiskLevelNames : InBand(s, b[l]) }) = 1
                /\ InBand(s, b.low) <=> s <= t.low
                /\ InBand(s, b.medium) <=> (t.low < s /\ s <= t.medium)
                /\ InBand(s, b.high) <=> s > t.medium
            /\ \A l \in RiskLevelNames : \E s \in 0..100 : InBand(s, b[l])

\* the prompt of an employment contract carries the bands 0-20, 21-50, 51-100
C6_Witness ==
    /\ pc = "generate"
    /\ domain = "employment"
    /\ systemPrompt.riskLevels.medium = [from |-> 21, to |-> 50]

(***************************************************************************)
(* Properties of the returned analysis record                              *)
(***************************************************************************)
Returned == pc = "done"

ClauseIndices(a) == DOMAIN a.clauses

InRange(v, lo, hi) == lo <= v /\ v <= hi

ScoresInRange(a) ==
    /\ InRange(a.riskScore, 0, 100)
    /\ \A i \in ClauseIndices(a) : InRange(a.clauses[i].riskScore, 0, 100)
    /\ \A k \in DOMAIN a.riskBreakdown : InRange(a.riskBreakdown[k], 0, 100)
    /\ InRange(a.confidence, 0, 100)

\* C7: a record with riskScore, a clause riskScore or a riskBreakdown
\* sub-score outside [0,100], or confidence outside [0,1], is rejected:
\* analyzeContract never returns it.
C7_OutOfRangeRejected == Returned => ScoresInRange(result)

SpanInvariant(a, c) ==
    /\ 0 <= c.startIndex
    /\ c.startIndex < c.endIndex
    /\ c.endIndex <= Len(a.content)
    /\ substring(a.content, c.startIndex, c.endIndex) = c.content

\* C8: a record with a clause whose startIndex >= endIndex, startIndex < 0,
\* endIndex > length(content) or whose addressed text differs from the
\* clause content is rejected: every returned record satisfies the span
\* invariant for every clause.
C8_BadSpanRejected ==
    Returned => \A i \in ClauseIndices(result) : SpanInvariant(result, result.clauses[i])

PartiallyOverlap(c, d) ==
    /\ c.startIndex < d.startIndex
    /\ d.startIndex < c.endIndex
    /\ c.endIndex < d.endIndex

\* C9: a record in which two clause spans partially overlap is rejected (a
\* span contained in another is accepted): no returned record has two
\* crossing clause spans.
C9_CrossingSpansRejected ==
    Returned =>
        \A i, j \in ClauseIndices(result) :
            ~PartiallyOverlap(result.clauses[i], result.clauses[j])

\* C10: a record whose riskBreakdown does not have exactly the five keys
\* payment, liability, termination, confidentiality, intellectual_property
\* is rejected and never returned.
C10_IncompleteBreakdownRejected ==
    Returned => DOMAIN result.riskBreakdown = BreakdownKeys

\* C11: a candidate that already has an id and an analysisDate keeps both:
\* passing an accepted record through the acceptance step again returns a
\* record equal to it in every field.
C11_ReacceptanceKeepsRecord ==
    (Returned /\ {"id", "analysisDate"} \subseteq DOMAIN analysisData) =>
        /\ DOMAIN result = DOMAIN analysisData
        /\ \A k \in DOMAIN analysisData : result[k] = analysisData[k]

\* C14: whatever keys the parsed answer has, the returned record has the
\* contract text as content and the title passed in as title.
C14_ContentAndTitleKept ==
    Returned => (result.content = contractText /\ result.title = title)

(***************************************************************************)
(* Persistence in localStorage: storeAnalysis, useStoredAnalysis           *)
(***************************************************************************)

\* number of storeAnalysis calls explored
MaxStores == 11

\* updatedIds.slice(0, 10): the list keeps the last ten ids
KeepLast == 10

\* what JSON.parse makes of a stored text: an array, an object, or null
StoredArray(items) == [kind |-> "array", items |-> items]
StoredObject(fields) == [kind |-> "object", fields |-> fields]
NullValue == [kind |-> "null"]

setItem(store, key, value) ==
    [k \in DOMAIN store \cup {key} |-> IF k = key THEN value ELSE store[k]]

\* JSON.parse(localStorage.getItem(key)), null for a missing key
getItem(store, key) == IF key \in DOMAIN store THEN store[key] ELSE NullValue

\* the template literal `analysis-${id}`
analysisKey(id) == "analysis-" \o id

\* Array.prototype.slice(0, n)
slice(seq, n) == SubSeq(seq, 1, Min(n, Len(seq)))

\* [analysis.id, ...existingIds.filter(id => id !== analysis.id)].slice(0, 10)
updatedIds(id0, existingIds) ==
    slice(<<id0>> \o SelectSeq(existingIds, LAMBDA id : id # id0), KeepLast)

TypeErrorFilter == "TypeError: existingIds.filter is not a function"

\* storeAnalysis(a).  The record is written first; the id list is then read
\* back from the store, so an id whose key is 'analysis-ids' itself makes
\* existingIds an object and the call throws at .filter
storeAnalysisWrites(store, a) ==
    LET written == setItem(store, analysisKey(a.id),
                           StoredObject(jsonParse(jsonStringify(a))))
        stored == getItem(written, "analysis-ids")
        existingIds == IF stored.kind = "null" THEN StoredArray(<<>>) ELSE stored
    IN  IF existingIds.kind = "array"
        THEN [store |-> setItem(written, "analysis-ids",
                                StoredArray(updatedIds(a.id, existingIds.items))),
              error |-> None]
        ELSE [store |-> written, error |-> TypeErrorFilter]

storeAnalysis(a) ==
    /\ storeCount < MaxStores
    /\ storeCount' = storeCount + 1
    /\ analysis' = a
    /\ localStorage' = storeAnalysisWrites(localStorage, a).store
    /\ error' = storeAnalysisWrites(localStorage, a).error
    /\ UNCHANGED <<pc, contractText, title, domain, config, systemPrompt, result,
                   analysisData, raised, question, qaAnswer, upload>>
    /\ UNCHANGED <<keyVars, calls, readBack, viewVars, uiVars>>

\* ids taken from the model's answer instead of crypto.randomUUID()
AnswerIds == {"analysis_1", "ids"}

FreshUuid(n) == "uuid-" \o ToString(n)

StoredText == "Pay rent"

StoredAnswer ==
    [BaseAnswer EXCEPT !.clauses = <<AnswerClause(StoredText, 0, 3, "Pay", 70)>>]

\* the record analyzeContract returns at time `now`
AnalysisAt(id, now) ==
    assemble(id, "Contract Analysis", StoredText, StoredAnswer, DateValue(now))

\* handleUpload / handleDemoAnalysis store the analysis they have just received
\* number of stores explored whose id came from the model's answer
MaxKeyedStores == 2

keyedStores ==
    storeCount - Cardinality({n \in 1..storeCount :
                                 analysisKey(FreshUuid(n)) \in DOMAIN localStorage})

storeAnalysisCall ==
    \E id \in {FreshUuid(storeCount + 1)} \cup AnswerIds :
        /\ id \in AnswerIds => keyedStores < MaxKeyedStores
        /\ storeAnalysis(AnalysisAt(id, storeCount + 1))

QueryIds == {FreshUuid(n) : n \in 1..MaxStores} \cup AnswerIds

\* queryFn of useStoredAnalysis(analysisId); the hook is disabled for null
useStoredAnalysis(analysisId) ==
    /\ readBack' = [analysisId |-> analysisId,
                    data |-> getItem(localStorage, analysisKey(analysisId))]
    /\ UNCHANGED <<callVars, keyVars, calls, uiVars, localStorage, storeCount, analysis,
                   viewVars>>

useStoredAnalysisQuery ==
    \E analysisId \in QueryIds :
        /\ analysisKey(analysisId) \in DOMAIN localStorage
        /\ useStoredAnalysis(analysisId)

NextStore == storeAnalysisCall \/ useStoredAnalysisQuery

SpecStore == Init /\ [][NextStore]_vars

\* C12: reading an analysis back with its id right after it was stored gives
\* a record equal to the stored one in every field, analysisDate included.
C12_RoundTripLossless ==
    [][(/\ readBack' # readBack
        /\ analysis # NoRecord
        /\ readBack'.analysisId = analysis.id
        /\ readBack'.data.kind = "object")
       => readBack'.data.fields = analysis]_vars

\* the value under 'analysis-ids', as useAnalysisList and the Dashboard read it
analysisIds == getItem(localStorage, "analysis-ids")

NoDuplicates(seq) == \A i, j \in 1..Len(seq) : seq[i] = seq[j] => i = j

\* seq without the entries equal to x
Without(seq, x) == SelectSeq(seq, LAMBDA y : y # x)

IsPrefix(short, long) ==
    Len(short) <= Len(long) /\ SubSeq(long, 1, Len(short)) = short

IdListWellFormed ==
    storeCount > 0 =>
        /\ analysisIds.kind = "array"
        /\ NoDuplicates(analysisIds.items)
        /\ Len(analysisIds.items) <= KeepLast
        /\ analysisIds.items[1] = analysis.id

\* a store puts its id in front and keeps the order of the other ids
IdListMovesToFront ==
    (storeCount' = storeCount + 1 /\ storeCount > 0) =>
        /\ analysisIds.kind = "array"
        /\ analysisIds'.kind = "array"
        /\ IsPrefix(Without(analysisIds'.items, analysis'.id),
                    Without(analysisIds.items, analysis'.id))

\* C16: after any sequence of storeAnalysis calls the 'analysis-ids' list has
\* no duplicate, at most 10 entries, the id just stored at index 0, and a
\* store leaves the relative order of the other ids as it was.
C16_IdListRecentFirst == [][IdListWellFormed' /\ IdListMovesToFront]_vars

\* the same for stores whose id is not the word 'ids'
IdListWellFormedUnlessIdsKey ==
    [](("analysis-ids" \in DOMAIN localStorage /\ analysisIds.kind = "array") =>
           /\ NoDuplicates(analysisIds.items)
           /\ Len(analysisIds.items) <= KeepLast
           /\ analysisIds.items[1] = analysis.id)

\* eleven distinct ids were stored and the list dropped the oldest
IdListTruncated ==
    /\ storeCount > KeepLast
    /\ analysisIds.kind = "array"
    /\ Len(analysisIds.items) = KeepLast
    /\ \A i \in 1..KeepLast : analysisIds.items[i] # FreshUuid(1)

(***************************************************************************)
(* Errors of the collaborators                                             *)
(***************************************************************************)

\* errors raised by the scoring call and by the document extractors
CollaboratorFailures == ApiFailures \cup PdfFailures \cup DocxFailures

Accepted(file) ==
    /\ file.size <= 10 * 1024 * 1024
    /\ \/ file.type \in {"application/pdf", "application/vnd.openxmlformats-officedocument.wordprocessingml.document"}
       \/ extensionOf(file.name) \in {"pdf", "docx"}

\* C17: processFile and the extractor are reached only with a file that
\* validateFileSize and validateFileType accepted; a file above 10 * 1024 * 1024
\* bytes, or with neither an allowed MIME type nor a pdf/docx extension, fails
\* without a call of processFile; a file of exactly that size gets through.
C17_ValidatedBeforeExtraction ==
    upload.file # NoRecord =>
        /\ ~Accepted(upload.file) =>
              /\ pc = "failed"
              /\ upload.processFileArg = NoRecord
              /\ upload.extractorArg = NoRecord
              /\ upload.processed = NoRecord
        /\ Accepted(upload.file) => upload.processFileArg = upload.file
        /\ upload.extractorArg # NoRecord => upload.processFileArg = upload.file

C17_Witness ==
    /\ pc = "processed"
    /\ upload.file.size = 10 * 1024 * 1024
    /\ upload.processed # NoRecord

\* C18: processFile throws 'Unsupported file type' before any extraction when
\* the lower-cased last dot-separated segment of the name is not pdf or docx,
\* also for a file accepted on its MIME type alone; a ProcessedFile has that
\* segment as its fileType.
C18_UnsupportedBeforeExtraction ==
    upload.processFileArg # NoRecord =>
        LET extension == extensionOf(upload.processFileArg.name)
        IN  /\ extension \notin {"pdf", "docx"} =>
                  /\ pc = "failed"
                  /\ error = "Unsupported file type. Please upload a PDF or DOCX file."
                  /\ upload.extractorArg = NoRecord
                  /\ upload.processed = NoRecord
            /\ upload.processed # NoRecord =>
                  /\ upload.processed.fileType = extension
                  /\ extension \in {"pdf", "docx"}

C18_Witness ==
    /\ pc = "failed"
    /\ upload.processFileArg # NoRecord
    /\ upload.processFileArg.name = "notes.txt"
    /\ upload.processFileArg.type = "application/pdf"
    /\ error = "Unsupported file type. Please upload a PDF or DOCX file."

(***************************************************************************)
(* Concurrent calls sharing aiInstance and apiKeyPromise                   *)
(***************************************************************************)

\* number of calls in flight explored
MaxCalls == 3

CallKinds == {"analyzeContract", "askContractQuestion"}

\* a call of analyzeContract or askContractQuestion starts: getAI runs up to
\* its await
callStarts(kind) ==
    /\ Len(calls) < MaxCalls
    /\ getAIBegin
    /\ calls' = Append(calls, [kind |-> kind, pc |-> "getAI"])
    /\ UNCHANGED <<callVars, aiInstance, storeVars, viewVars, uiVars>>

\* the await of call i in getAI is over: the client is created, or the
\* rejection of the shared promise is thrown into the call's catch block
callGetsAI(i) ==
    /\ calls[i].pc = "getAI"
    /\ getAISettled
    /\ IF getAIThrows
       THEN /\ calls' = [calls EXCEPT ![i].pc = "failed"]
            /\ UNCHANGED aiInstance
       ELSE /\ calls' = [calls EXCEPT ![i].pc = "generate"]
            /\ aiInstance' = TRUE
    /\ UNCHANGED <<callVars, apiKeyPromise, configRequests, storeVars, viewVars,
                   uiVars>>

\* generateContent of call i settles
callSettles(i) ==
    /\ calls[i].pc = "generate"
    /\ \E outcome \in {"done", "failed"} : calls' = [calls EXCEPT ![i].pc = outcome]
    /\ UNCHANGED <<callVars, keyVars, storeVars, viewVars, uiVars>>

NextKey ==
    \/ \E kind \in CallKinds : callStarts(kind)
    \/ fetchApiKeySettles
    \/ \E i \in 1..Len(calls) : callGetsAI(i)
    \/ \E i \in 1..Len(calls) : callSettles(i)

SpecKey == Init /\ [][NextKey]_vars

\* C19: whatever the interleaving of the calls, /api/config is requested at
\* most once, and not before the first call that needs the client.
C19_OneConfigRequest ==
    /\ configRequests <= 1
    /\ Len(calls) = 0 => (configRequests = 0 /\ apiKeyPromise = NullPromise)
    /\ Len(calls) > 0 => configRequests = 1

C19_Witness ==
    /\ Len(calls) >= 2
    /\ calls[1].kind # calls[2].kind
    /\ calls[1].pc = "getAI" /\ calls[2].pc = "getAI"
    /\ apiKeyPromise.state = "pending"
    /\ configRequests = 1

(***************************************************************************)
(* The Dashboard's components: ContractViewer, ClauseExplorer,             *)
(* RiskInsights, export                                                    *)
(***************************************************************************)

\* Array.prototype.sort with the comparator (a, b) => key(a) - key(b): stable,
\* ascending in the key.  keys[i] is the key of seq[i].
stableSort(seq, keys) ==
    LET n == Len(seq)
        before(k, j) == keys[k] < keys[j] \/ (keys[k] = keys[j] /\ k < j)
        rank(j) == 1 + Cardinality({k \in 1..n : before(k, j)})
    IN  [i \in 1..n |-> seq[CHOOSE j \in 1..n : rank(j) = i]]

\* [...analysis.clauses].sort((a, b) => a.startIndex - b.startIndex)
sortedByStartIndex(clauses) ==
    stableSort(clauses, [i \in 1..Len(clauses) |-> clauses[i].startIndex])

\* [...clauses].sort((a, b) => b.riskScore - a.riskScore)
sortedByRiskScore(clauses) ==
    stableSort(clauses, [i \in 1..Len(clauses) |-> 0 - clauses[i].riskScore])

\* a sort called on the array itself: the array of the analysis is reordered
clausesAfterSortInPlace(clauses) == sortedByRiskScore(clauses)

\* the array of the analysis after ClauseExplorer sorted: sort reorders its
\* receiver, and the receiver is the spread copy
clausesAfterExplorerSort(clauses) == clauses

\* the same for the sort of ContractViewer
clausesAfterViewerSort(clauses) == clauses

\* getRiskColor(level).split(' ')[0]
riskColorClass(level) ==
    CASE level = "high" -> "bg-red-100"
      [] level = "medium" -> "bg-yellow-100"
      [] level = "low" -> "bg-green-100"
      [] OTHER -> "bg-gray-100"

\* the template literal wrappedClause
wrappedClause(clause, clauseText, selected) ==
    "<span \n        class=\"clause-highlight " \o riskColorClass(clause.riskLevel)
    \o " px-1 py-0.5 rounded cursor-pointer transition-all hover:opacity-80 "
    \o (IF selected = clause.id THEN "ring-2 ring-blue-500" ELSE "")
    \o "\" \n        data-clause-id=\"" \o clause.id
    \o "\"\n        data-risk=\"" \o clause.riskLevel
    \o "\"\n        title=\"" \o clause.explanation
    \o "\"\n      >" \o clauseText \o "</span>"

MarkOpen == "<mark class=\"bg-blue-200 dark:bg-blue-800\">"
MarkClose == "</mark>"

\* content.replace(new RegExp(`(${term})`, 'gi'), '<mark ...>$1</mark>') for a
\* term of letters: every occurrence, left to right, whatever its case
RECURSIVE searchHighlight(_, _)
searchHighlight(content, term) ==
    LET n == Len(term)
        hits == {i \in 1..(Len(content) - n + 1) :
                    toLowerCase(SubSeq(content, i, i + n - 1)) = toLowerCase(term)}
    IN  IF hits = {} THEN content
        ELSE LET i == CHOOSE h \in hits : \A g \in hits : h <= g
             IN  SubSeq(content, 1, i - 1)
                 \o MarkOpen \o SubSeq(content, i, i + n - 1) \o MarkClose
                 \o searchHighlight(SubSeq(content, i + n, Len(content)), term)

\* the forEach over sortedClauses: content and offset after the first k clauses
RECURSIVE wrapClauses(_, _, _, _)
wrapClauses(content, sortedClauses, k, selected) ==
    IF k = 0 THEN [content |-> content, offset |-> 0]
    ELSE LET prev == wrapClauses(content, sortedClauses, k - 1, selected)
             clause == sortedClauses[k]
             startIndex == clause.startIndex + prev.offset
             endIndex == clause.endIndex + prev.offset
             beforeText == substring(prev.content, 0, startIndex)
             clauseText == substring(prev.content, startIndex, endIndex)
             afterText == substring(prev.content, endIndex, Len(prev.content))
             wrapped == wrappedClause(clause, clauseText, selected)
         IN  [content |-> beforeText \o wrapped \o afterText,
              offset |-> prev.offset + Len(wrapped) - Len(clauseText)]

\* the forEach with the offset left at 0
RECURSIVE wrapClausesNoOffset(_, _, _, _)
wrapClausesNoOffset(content, sortedClauses, k, selected) ==
    IF k = 0 THEN [content |-> content, offset |-> 0]
    ELSE LET prev == wrapClausesNoOffset(content, sortedClauses, k - 1, selected)
             clause == sortedClauses[k]
             beforeText == substring(prev.content, 0, clause.startIndex)
             clauseText == substring(prev.content, clause.startIndex, clause.endIndex)
             afterText == substring(prev.content, clause.endIndex, Len(prev.content))
             wrapped == wrappedClause(clause, clauseText, selected)
         IN  [content |-> beforeText \o wrapped \o afterText, offset |-> 0]

\* the memo highlightedContent with the offset never advanced
highlightedContentNoOffset(a, term, selected) ==
    LET content == IF term # "" THEN searchHighlight(a.content, term) ELSE a.content
        sortedClauses == sortedByStartIndex(a.clauses)
    IN  wrapClausesNoOffset(content, sortedClauses, Len(sortedClauses), selected).content

\* the memo highlightedContent of ContractViewer
highlightedContent(a, term, selected) ==
    LET content == IF term # "" THEN searchHighlight(a.content, term) ELSE a.content
        sortedClauses == sortedByStartIndex(a.clauses)
    IN  wrapClauses(content, sortedClauses, Len(sortedClauses), selected).content

\* RiskInsights: the colour of the score and the entries of the breakdown
riskInsights(a) ==
    [scoreColor |-> IF a.riskScore >= 70 THEN "red"
                    ELSE IF a.riskScore >= 40 THEN "yellow" ELSE "green",
     riskBreakdownEntries |-> DOMAIN a.riskBreakdown,
     confidencePercent |-> a.confidence,
     selectedClauseData |->
        IF \E i \in 1..Len(a.clauses) : a.clauses[i].id = selectedClause
        THEN a.clauses[CHOOSE i \in 1..Len(a.clauses) :
                          /\ a.clauses[i].id = selectedClause
                          /\ \A j \in 1..(i - 1) : a.clauses[j].id # selectedClause]
        ELSE Undefined]

\* exportData of handleExportAnalysis
exportDataOf(a) ==
    [contractTitle |-> a.title,
     analysisDate |-> a.analysisDate,
     riskScore |-> a.riskScore,
     confidence |-> a.confidence,
     riskBreakdown |-> a.riskBreakdown,
     keyIssues |-> a.keyIssues,
     missingProtections |-> a.missingProtections,
     plainLanguageSummary |-> a.plainLanguageSummary,
     clauses |-> [i \in 1..Len(a.clauses) |->
                    [title |-> a.clauses[i].title,
                     content |-> a.clauses[i].content,
                     riskLevel |-> a.clauses[i].riskLevel,
                     riskScore |-> a.clauses[i].riskScore,
                     explanation |-> a.clauses[i].explanation,
                     suggestions |-> a.clauses[i].suggestions]]]

ViewText == "Pay rent"

\* spans a model answer may carry: disjoint, adjacent, nested, crossing,
\* reversed, negative and past the end of the text
ViewSpans ==
    {<<0, 3>>, <<4, 8>>, <<3, 4>>, <<1, 2>>, <<2, 5>>, <<5, 3>>, <<0 - 1, 2>>, <<0, 9>>}

\* every span as a high-risk clause, two of them as low-risk clauses too
ViewRisks ==
    { <<sp, "high", 80>> : sp \in ViewSpans }
    \cup { <<sp, "low", 30>> : sp \in {<<0, 3>>, <<4, 8>>} }

ViewClauses ==
    { [AnswerClause(ViewText, r[1][1], r[1][2],
                    substring(ViewText, r[1][1], r[1][2]), r[3])
         EXCEPT !.riskLevel = r[2]] : r \in ViewRisks }

\* the analyses the Dashboard may hold: read from localStorage, so with the
\* analysisDate JSON made of it
ViewAnalyses ==
    { jsonParse(jsonStringify(
          assemble("uuid-1", "Contract Analysis", ViewText,
                   [BaseAnswer EXCEPT !.clauses = cl], DateValue(1)))) :
        cl \in UNION { [1..n -> ViewClauses] : n \in 0..MaxClauses } }

SearchTerms == {"", "pay"}

\* the three components render with the analysis and the current state
rendered(a, term, selected) ==
    /\ highlighted' = highlightedContent(a, term, selected)
    /\ explorerClauses' = sortedByRiskScore(a.clauses)
    /\ insights' = riskInsights(a)
    /\ analysis' = [a EXCEPT !.clauses =
                       clausesAfterExplorerSort(clausesAfterViewerSort(a.clauses))]

\* the Dashboard receives the analysis of its query
dashboardShows(a) ==
    /\ analysis = NoRecord
    /\ analysis' = a
    /\ UNCHANGED <<callVars, keyVars, calls, uiVars, localStorage, storeCount, readBack,
                   viewVars>>

\* the first render of the components with the analysis
dashboardRenders ==
    /\ analysis # NoRecord
    /\ highlighted = None
    /\ rendered(analysis, searchTerm, selectedClause)
    /\ UNCHANGED <<callVars, keyVars, calls, uiVars, localStorage, storeCount, readBack,
                   searchTerm, selectedClause, exportData>>

\* typing in the search box of ContractViewer
setSearchTerm(term) ==
    /\ highlighted # None
    /\ term # searchTerm
    /\ searchTerm' = term
    /\ rendered(analysis, term, selectedClause)
    /\ UNCHANGED <<callVars, keyVars, calls, uiVars, localStorage, storeCount, readBack,
                   selectedClause, exportData>>

\* a click on a clause: Dashboard sets selectedClause
onClauseSelect(clauseId) ==
    /\ highlighted # None
    /\ clauseId # selectedClause
    /\ selectedClause' = clauseId
    /\ rendered(analysis, searchTerm, clauseId)
    /\ UNCHANGED <<callVars, keyVars, calls, uiVars, localStorage, storeCount, readBack,
                   searchTerm, exportData>>

clauseClicked ==
    /\ analysis # NoRecord
    /\ \E i \in 1..Len(analysis.clauses) : onClauseSelect(analysis.clauses[i].id)

handleExportAnalysis ==
    /\ highlighted # None
    /\ exportData' = exportDataOf(analysis)
    /\ UNCHANGED <<callVars, keyVars, calls, uiVars, storeVars, searchTerm, selectedClause,
                   highlighted, explorerClauses, insights>>

\* the analysis on display is stored (once in this specification)
storeShownAnalysis ==
    /\ analysis # NoRecord
    /\ storeCount = 0
    /\ storeAnalysis(analysis)

NextView ==
    \/ \E a \in ViewAnalyses : dashboardShows(a)
    \/ dashboardRenders
    \/ \E term \in SearchTerms : setSearchTerm(term)
    \/ clauseClicked
    \/ handleExportAnalysis
    \/ storeShownAnalysis

SpecView == Init /\ [][NextView]_vars

\* C15: no operation that receives the analysis (the render of the viewer,
\* the explorer and the insights panel, the export, storeAnalysis) changes a
\* field of it or the order of its clauses.
C15_AnalysisNeverMutated ==
    [][analysis # NoRecord => analysis' = analysis]_vars

\* every operation has run on an analysis whose clauses both sorts reorder
C15_Witness ==
    /\ analysis # NoRecord
    /\ highlighted # None
    /\ Len(analysis.clauses) = 2
    /\ explorerClauses # analysis.clauses
    /\ sortedByStartIndex(analysis.clauses) # analysis.clauses
    /\ exportData # NoRecord
    /\ storeCount = 1
    /\ "analysis-uuid-1" \in DOMAIN localStorage

\* every clause addresses its own text inside the content, and no two clauses
\* share a character
SpansValidDisjoint(a) ==
    /\ \A i \in 1..Len(a.clauses) : SpanInvariant(a, a.clauses[i])
    /\ \A i, j \in 1..Len(a.clauses) :
          i # j => \/ a.clauses[i].endIndex <= a.clauses[j].startIndex
                   \/ a.clauses[j].endIndex <= a.clauses[i].startIndex

\* the content from position pos on, each clause of the set wrapped where it
\* lies, the clauses taken by ascending startIndex
RECURSIVE ExpectedFrom(_, _, _)
ExpectedFrom(a, clauseSet, pos) ==
    IF clauseSet = {} THEN SubSeq(a.content, pos + 1, Len(a.content))
    ELSE LET c == CHOOSE x \in clauseSet :
                      \A y \in clauseSet : x.startIndex <= y.startIndex
         IN  SubSeq(a.content, pos + 1, c.startIndex)
             \o wrappedClause(c, SubSeq(a.content, c.startIndex + 1, c.endIndex),
                              selectedClause)
             \o ExpectedFrom(a, clauseSet \ {c}, c.endIndex)

\* html without its tags (everything from a '<' to the next '>')
RECURSIVE stripWrappers(_)
stripWrappers(html) ==
    LET opens == {i \in 1..Len(html) : SubSeq(html, i, i) = "<"}
    IN  IF opens = {} THEN html
        ELSE LET o == CHOOSE i \in opens : \A j \in opens : i <= j
                 closes == {i \in o..Len(html) : SubSeq(html, i, i) = ">"}
                 c == CHOOSE i \in closes : \A j \in closes : i <= j
             IN  SubSeq(html, 1, o - 1)
                 \o stripWrappers(SubSeq(html, c + 1, Len(html)))

\* C20: with no search term and clauses that satisfy the span invariants and
\* do not overlap, the viewer wraps exactly content[startIndex:endIndex] of
\* each clause, in startIndex order, and the text without the wrappers is
\* analysis.content.
C20_ViewerWrapsClauseText ==
    (highlighted # None /\ searchTerm = "" /\ SpansValidDisjoint(analysis)) =>
        /\ highlighted =
              ExpectedFrom(analysis, {analysis.clauses[i] : i \in 1..Len(analysis.clauses)}, 0)
        /\ stripWrappers(highlighted) = analysis.content

C20_Witness ==
    /\ analysis # NoRecord
    /\ searchTerm = ""
    /\ SpansValidDisjoint(analysis)
    /\ Len(analysis.clauses) = 2
    /\ analysis.clauses[1].startIndex > analysis.clauses[2].startIndex
    /\ selectedClause = analysis.clauses[1].id
    /\ highlighted # None


(***************************************************************************)
(* The band of an overall score: the prompt of analyzeContract and the     *)
(* colour of the Risk Summary                                              *)
(***************************************************************************)

\* the analysis of a contract of some domain with some overall score
InitBands ==
    /\ pc = "bands"
    /\ contractText = ""
    /\ title = ""
    /\ domain \in DomainTags
    /\ config = lookupConfig(domain)
    /\ systemPrompt = NoRecord
    /\ result = NoRecord
    /\ error = None
    /\ analysisData = NoRecord
    /\ raised = None
    /\ question = None
    /\ qaAnswer = None
    /\ upload = NoUpload
    /\ InitModule
    /\ calls = NoCalls
    /\ localStorage = EmptyStorage
    /\ storeCount = 0
    /\ analysis \in { [AnalysisAt("uuid-1", 1) EXCEPT !.riskScore = s] : s \in 0..100 }
    /\ readBack = NoRecord
    /\ searchTerm = ""
    /\ selectedClause = None
    /\ highlighted = None
    /\ explorerClauses = <<>>
    /\ insights = NoRecord
    /\ exportData = NoRecord
    /\ InitUi

\* the prompt is built for the domain, and RiskInsights renders the score
RiskBands ==
    /\ pc = "bands"
    /\ systemPrompt' = buildSystemPrompt(domain, config)
    /\ insights' = riskInsights(analysis)
    /\ pc' = "banded"
    /\ UNCHANGED <<contractText, title, domain, config, result, error,
                   analysisData, raised, question, qaAnswer, upload>>
    /\ UNCHANGED <<keyVars, calls, uiVars, storeVars, searchTerm, selectedClause,
                   highlighted, explorerClauses, exportData>>

NextBands == RiskBands

SpecBands == InitBands /\ [][NextBands]_vars

\* C21: the colour of the Risk Summary is the band of the prompt for the
\* contract's domain: green iff Low, yellow iff Medium, red iff High, for
\* every domain and every score of 0..100.
C21_ColourIsDomainBand ==
    pc = "banded" =>
        LET s == analysis.riskScore
            b == systemPrompt.riskLevels
        IN  /\ insights.scoreColor = "green" <=> InBand(s, b.low)
            /\ insights.scoreColor = "yellow" <=> InBand(s, b.medium)
            /\ insights.scoreColor = "red" <=> InBand(s, b.high)


\* html without the opening and closing tags of the search marks
RECURSIVE stripMarks(_)
stripMarks(html) ==
    LET at(tag) == {i \in 1..(Len(html) - Len(tag) + 1) :
                       SubSeq(html, i, i + Len(tag) - 1) = tag}
        hits == at(MarkOpen) \cup at(MarkClose)
    IN  IF hits = {} THEN html
        ELSE LET i == CHOOSE h \in hits : \A g \in hits : h <= g
                 n == IF i \in at(MarkOpen) THEN Len(MarkOpen) ELSE Len(MarkClose)
             IN  SubSeq(html, 1, i - 1) \o stripMarks(SubSeq(html, i + n, Len(html)))

\* C24: with a search term entered, every clause wrapper still encloses
\* content[startIndex:endIndex] of the original text and no wrapper cuts into
\* the markup of a search mark: without the marks the result is the clause
\* highlighting of the original text, without any tag it is the text.
C24_SearchKeepsClauseSpans ==
    (highlighted # None /\ searchTerm # "" /\ SpansValidDisjoint(analysis)) =>
        /\ stripMarks(highlighted) =
              ExpectedFrom(analysis, {analysis.clauses[i] : i \in 1..Len(analysis.clauses)}, 0)
        /\ stripWrappers(highlighted) = analysis.content


(***************************************************************************)
(* A rejected key fetch                                                    *)
(***************************************************************************)

MaxDemos == 1

\* a string kept in localStorage as it is, not parsed
StoredString(text) == [kind |-> "string", value |-> text]

\* data of useStoredAnalysis(currentAnalysisId): null while no id is current
dashboardAnalysis ==
    IF dashboard.currentAnalysisId = None THEN NullValue
    ELSE getItem(localStorage, analysisKey(dashboard.currentAnalysisId))

\* what the render of Dashboard returns for a value of showIntro
dashboardDisplays(showIntro) == IF showIntro THEN "IntroAnimation" ELSE "Dashboard"

\* the page is opened: the states take their useState defaults and the
\* first render is committed before any effect has run
dashboardMounts ==
    /\ ~dashboard.mounted
    /\ dashboard' = [mounted |-> TRUE, showIntro |-> TRUE, effectPending |-> TRUE,
                     displayed |-> dashboardDisplays(TRUE), introStep |-> 0,
                     currentAnalysisId |-> None, showUploadModal |-> FALSE,
                     toast |-> None]
    /\ UNCHANGED <<callVars, keyVars, calls, storeVars, viewVars, qa, modal, pipelines>>

\* the two mount effects, then the render their state updates cause
mountEffectsRun ==
    /\ dashboard.mounted
    /\ dashboard.effectPending
    /\ LET stored == getItem(localStorage, "analysis-ids")
           storedIds == IF stored.kind = "array" THEN stored.items ELSE <<>>
           id == IF Len(storedIds) > 0 /\ dashboard.currentAnalysisId = None
                 THEN storedIds[1]
                 ELSE dashboard.currentAnalysisId
           hasSeenIntro == getItem(localStorage, "hasSeenIntro")
           show == IF hasSeenIntro.kind # "null" THEN FALSE ELSE dashboard.showIntro
       IN  dashboard' = [dashboard EXCEPT !.effectPending = FALSE,
                                          !.currentAnalysisId = id,
                                          !.showIntro = show,
                                          !.displayed = dashboardDisplays(show)]
    /\ UNCHANGED <<callVars, keyVars, calls, storeVars, viewVars, qa, modal, pipelines>>

\* index of the last of the four steps of IntroAnimation
LastStep == 3

\* the 800 ms timer of IntroAnimation: next step, or after the last step
\* the content is hidden (introStep beyond LastStep)
introTimerFires ==
    /\ dashboard.mounted
    /\ ~dashboard.effectPending
    /\ dashboard.displayed = "IntroAnimation"
    /\ dashboard.introStep <= LastStep
    /\ dashboard' = [dashboard EXCEPT !.introStep = @ + 1]
    /\ UNCHANGED <<callVars, keyVars, calls, storeVars, viewVars, qa, modal, pipelines>>

\* onComplete of IntroAnimation, 500 ms after the content was hidden
handleIntroComplete ==
    /\ dashboard.mounted
    /\ dashboard.displayed = "IntroAnimation"
    /\ dashboard.introStep > LastStep
    /\ localStorage' = setItem(localStorage, "hasSeenIntro", StoredString("true"))
    /\ dashboard' = [dashboard EXCEPT !.showIntro = FALSE,
                                      !.displayed = dashboardDisplays(FALSE)]
    /\ UNCHANGED <<callVars, keyVars, calls, viewVars, qa, modal, pipelines>>
    /\ UNCHANGED <<storeCount, analysis, readBack>>

\* the Try Demo button: analyzeContract is called and awaited
handleDemoAnalysis ==
    /\ dashboard.displayed = "Dashboard"
    /\ dashboardAnalysis.kind = "null"
    /\ storeCount < MaxDemos
    /\ analysis = NoRecord
    /\ \E id \in {FreshUuid(storeCount + 1)} \cup AnswerIds :
            analysis' = AnalysisAt(id, storeCount + 1)
    /\ UNCHANGED <<callVars, keyVars, calls, viewVars, uiVars>>
    /\ UNCHANGED <<localStorage, storeCount, readBack>>

\* analyzeContract has resolved: storeAnalysis, then setCurrentAnalysisId
\* unless storeAnalysis threw
demoAnalysisResolves ==
    /\ dashboard.mounted
    /\ analysis # NoRecord
    /\ LET wrote == storeAnalysisWrites(localStorage, analysis)
       IN  /\ localStorage' = wrote.store
           /\ dashboard' = IF wrote.error = None
                           THEN [dashboard EXCEPT !.currentAnalysisId = analysis.id,
                                                  !.toast = "Demo Analysis Complete"]
                           ELSE [dashboard EXCEPT !.toast = "Demo Analysis Failed"]
    /\ storeCount' = storeCount + 1
    /\ analysis' = NoRecord
    /\ UNCHANGED <<callVars, keyVars, calls, viewVars, qa, modal, pipelines, readBack>>

\* analyzeContract has rejected: a toast only
demoAnalysisRejects ==
    /\ dashboard.mounted
    /\ analysis # NoRecord
    /\ storeCount' = storeCount + 1
    /\ analysis' = NoRecord
    /\ dashboard' = [dashboard EXCEPT !.toast = "Demo Analysis Failed"]
    /\ UNCHANGED <<callVars, keyVars, calls, viewVars, qa, modal, pipelines,
                   localStorage, readBack>>

\* the Q&A button; without an analysis it only shows a toast
handleStartQASession ==
    /\ dashboard.displayed = "Dashboard"
    /\ ~qa.showQAModal
    /\ IF dashboardAnalysis.kind = "null"
       THEN /\ dashboard' = [dashboard EXCEPT !.toast = "No Analysis Available"]
            /\ qa' = qa
       ELSE /\ qa' = [qa EXCEPT !.showQAModal = TRUE]
            /\ dashboard' = dashboard
    /\ UNCHANGED <<callVars, keyVars, calls, storeVars, viewVars, modal, pipelines>>

\* what the user types into the textarea
QaInputs == {"", " ", "When is rent due?"}

\* onChange of the textarea
setQAQuestion(text) ==
    /\ dashboard.displayed = "Dashboard"
    /\ qa.showQAModal
    /\ qa' = [qa EXCEPT !.qaQuestion = text]
    /\ UNCHANGED <<callVars, keyVars, calls, storeVars, viewVars, dashboard, modal,
                   pipelines>>

\* disabled of the Ask button
askDisabled == trimIsEmpty(qa.qaQuestion) \/ qa.qaLoading

\* handleAskQuestion up to its await of askContractQuestion
handleAskQuestion ==
    /\ dashboard.displayed = "Dashboard"
    /\ qa.showQAModal
    /\ ~askDisabled
    /\ ~trimIsEmpty(qa.qaQuestion) /\ dashboardAnalysis.kind # "null"
    /\ qa' = [qa EXCEPT !.qaLoading = TRUE, !.asked = qa.qaQuestion]
    /\ UNCHANGED <<callVars, keyVars, calls, storeVars, viewVars, dashboard, modal,
                   pipelines>>

\* answers askContractQuestion resolves with
QaAnswers == {"Rent is due on the first."}

\* handleAskQuestion after the await: the answer is set whatever the modal
\* shows by now
askResolves ==
    /\ qa.asked # None
    /\ \E response \in QaAnswers :
            qa' = [qa EXCEPT !.qaResponse = response, !.qaLoading = FALSE,
                             !.asked = None]
    /\ UNCHANGED <<callVars, keyVars, calls, storeVars, viewVars, dashboard, modal,
                   pipelines>>

\* askContractQuestion rejected: toast, then finally
askRejects ==
    /\ qa.asked # None
    /\ qa' = [qa EXCEPT !.qaLoading = FALSE, !.asked = None]
    /\ dashboard' = [dashboard EXCEPT !.toast = "Q&A Failed"]
    /\ UNCHANGED <<callVars, keyVars, calls, storeVars, viewVars, modal, pipelines>>

\* the X button and the Close button of the Q&A modal
closeQAModal ==
    /\ dashboard.displayed = "Dashboard"
    /\ qa.showQAModal
    /\ qa' = [qa EXCEPT !.showQAModal = FALSE, !.qaQuestion = "", !.qaResponse = ""]
    /\ UNCHANGED <<callVars, keyVars, calls, storeVars, viewVars, dashboard, modal,
                   pipelines>>

\* the page is closed or reloaded: component state, timers and pending
\* promises are gone, localStorage stays
pageReloads ==
    /\ dashboard.mounted
    /\ dashboard' = [mounted |-> FALSE, showIntro |-> TRUE, effectPending |-> FALSE,
                     displayed |-> "nothing", introStep |-> 0,
                     currentAnalysisId |-> None, showUploadModal |-> FALSE,
                     toast |-> None]
    /\ qa' = [showQAModal |-> FALSE, qaQuestion |-> "", qaResponse |-> "",
              qaLoading |-> FALSE, asked |-> None]
    /\ analysis' = NoRecord
    /\ UNCHANGED <<callVars, keyVars, calls, viewVars, modal, pipelines>>
    /\ UNCHANGED <<localStorage, storeCount, readBack>>

NextDashboard ==
    \/ dashboardMounts
    \/ mountEffectsRun
    \/ introTimerFires
    \/ handleIntroComplete
    \/ handleDemoAnalysis
    \/ demoAnalysisResolves
    \/ demoAnalysisRejects
    \/ handleStartQASession
    \/ \E text \in QaInputs : setQAQuestion(text)
    \/ handleAskQuestion
    \/ askResolves
    \/ askRejects
    \/ closeQAModal
    \/ pageReloads

SpecDashboard == Init /\ [][NextDashboard]_vars

\* C22: once 'hasSeenIntro' is in localStorage no mounted Dashboard displays
\* the IntroAnimation, and without it a mounted Dashboard displays the
\* IntroAnimation and nothing else
C22_IntroOnlyForNewUsers ==
    dashboard.mounted =>
        IF "hasSeenIntro" \in DOMAIN localStorage
        THEN dashboard.displayed # "IntroAnimation"
        ELSE dashboard.displayed = "IntroAnimation"

\* C28: whenever the Q&A modal is closed, qaQuestion and qaResponse are both
\* empty, also when an answer arrives after the modal was closed
C28_ClosedModalIsEmpty ==
    ~qa.showQAModal => qa.qaQuestion = "" /\ qa.qaResponse = ""

(***************************************************************************)
(* The UploadModal and its handleUpload pipeline                           *)
(***************************************************************************)
\* number of handleUpload runs explored
MaxUploads == 2

\* files the user selects: at the size limit or beyond it, accepted or not
UploadFiles ==
    {f \in Files : /\ f.name \in {"lease.pdf", "notes.txt"}
                   /\ f.type \in {PdfMime, "text/plain"}
                   /\ f.size \in {maxSizeBytes, maxSizeBytes + 1}}

\* a run of handleUpload: the file it captured, where it stands, the calls
\* it has made and the values it has given to setProgress
NewPipeline(file) ==
    [file |-> file, stage |-> "started", failedAt |-> None, steps |-> <<>>,
     progress |-> <<>>, handedId |-> None, storedWhenHanded |-> FALSE]

InFlight(p) == p.stage \in {"extracting", "analyzing"}

\* fileUpload.isPending || contractAnalysis.isPending
isProcessing == modal.uploadPending \/ modal.analysisPending

\* progress === 100
isComplete == modal.progress = 100

\* disabled of the Analyze button without isProcessing
analyzeDisabledUnlessProcessing == modal.selectedFile = NoRecord \/ isComplete

\* disabled of the Analyze button
analyzeDisabled == modal.selectedFile = NoRecord \/ isProcessing \/ isComplete

\* the catch block of handleUpload, calling resetModal
handleUploadCatchResets(m) ==
    [m EXCEPT !.progress = 0, !.selectedFile = NoRecord]

\* the catch block of handleUpload: a toast and setProgress(0)
handleUploadCatch(m) == [m EXCEPT !.progress = 0]

\* the run p ends in the catch block after failing in `step`
failedPipeline(p, step, name) ==
    [p EXCEPT !.stage = "failed", !.failedAt = step,
              !.steps = @ \o <<name>>, !.progress = @ \o <<0>>]

\* the end of handleUpload with onAnalysisComplete called before storeAnalysis
handleUploadCompletesNotifyFirst(store, a) ==
    LET wrote == storeAnalysisWrites(store, a)
    IN  [store |-> wrote.store, error |-> wrote.error,
         steps |-> IF wrote.error = None
                   THEN <<"onAnalysisComplete", "storeAnalysis", "onClose", "resetModal">>
                   ELSE <<"onAnalysisComplete", "storeAnalysis">>,
         storedWhenHanded |-> analysisKey(a.id) \in DOMAIN store]

\* the end of handleUpload once the analysis is there: storeAnalysis, then
\* onAnalysisComplete(analysis.id), onClose and resetModal unless
\* storeAnalysis threw
handleUploadCompletes(store, a) ==
    LET wrote == storeAnalysisWrites(store, a)
    IN  [store |-> wrote.store, error |-> wrote.error,
         steps |-> IF wrote.error = None
                   THEN <<"storeAnalysis", "onAnalysisComplete", "onClose", "resetModal">>
                   ELSE <<"storeAnalysis">>,
         storedWhenHanded |-> analysisKey(a.id) \in DOMAIN wrote.store]

\* a button that opens the upload modal
openUploadModal ==
    /\ dashboard.displayed = "Dashboard"
    /\ ~dashboard.showUploadModal
    /\ dashboard' = [dashboard EXCEPT !.showUploadModal = TRUE]
    /\ UNCHANGED <<callVars, keyVars, calls, storeVars, viewVars, qa, modal, pipelines>>

\* onClose from the Dialog (Escape, overlay) or the Cancel button
closeUploadModal ==
    /\ dashboard.displayed = "Dashboard"
    /\ dashboard.showUploadModal
    /\ dashboard' = [dashboard EXCEPT !.showUploadModal = FALSE]
    /\ UNCHANGED <<callVars, keyVars, calls, storeVars, viewVars, qa, modal, pipelines>>

\* handleDrop and handleFileSelect
handleFileSelect(file) ==
    /\ dashboard.displayed = "Dashboard"
    /\ dashboard.showUploadModal
    /\ modal' = [modal EXCEPT !.selectedFile = file]
    /\ UNCHANGED <<callVars, keyVars, calls, storeVars, viewVars, dashboard, qa,
                   pipelines>>

\* handleUpload up to its first await: setProgress(10), the two validations,
\* setProgress(20), fileUpload.mutateAsync
handleUpload ==
    /\ dashboard.displayed = "Dashboard"
    /\ dashboard.showUploadModal
    /\ ~analyzeDisabled
    /\ modal.selectedFile # NoRecord
    /\ Len(pipelines) < MaxUploads
    /\ LET file == modal.selectedFile
           p == [NewPipeline(file) EXCEPT !.progress = <<10>>]
       IN  IF validateFileSizeThrows(file)
           THEN /\ pipelines' = Append(pipelines,
                                       failedPipeline(p, "validation", "validateFileSize"))
                /\ modal' = handleUploadCatch([modal EXCEPT !.progress = 10])
           ELSE IF validateFileTypeThrows(file)
           THEN /\ pipelines' =
                      Append(pipelines,
                             failedPipeline([p EXCEPT !.steps = <<"validateFileSize">>],
                                            "validation", "validateFileType"))
                /\ modal' = handleUploadCatch([modal EXCEPT !.progress = 10])
           ELSE /\ pipelines' =
                      Append(pipelines,
                             [p EXCEPT !.stage = "extracting",
                                       !.steps = <<"validateFileSize", "validateFileType",
                                                   "fileUpload.mutateAsync">>,
                                       !.progress = <<10, 20>>])
                /\ modal' = [modal EXCEPT !.progress = 20, !.uploadPending = TRUE]
    /\ UNCHANGED <<callVars, keyVars, calls, storeVars, viewVars, dashboard, qa>>

\* fileUpload.mutateAsync resolved: setProgress(50), contractAnalysis.mutateAsync
extractionResolves(i) ==
    /\ pipelines[i].stage = "extracting"
    /\ ~processFileUnsupported(pipelines[i].file)
    /\ pipelines' = [pipelines EXCEPT ![i] =
                        [@ EXCEPT !.stage = "analyzing",
                                  !.steps = @ \o <<"contractAnalysis.mutateAsync">>,
                                  !.progress = @ \o <<50>>]]
    /\ modal' = [modal EXCEPT !.progress = 50, !.uploadPending = FALSE,
                              !.analysisPending = TRUE]
    /\ UNCHANGED <<callVars, keyVars, calls, storeVars, viewVars, dashboard, qa>>

\* fileUpload.mutateAsync rejected: processFile threw
extractionRejects(i) ==
    /\ pipelines[i].stage = "extracting"
    /\ pipelines' = [pipelines EXCEPT ![i] =
                        [@ EXCEPT !.stage = "failed", !.failedAt = "extraction",
                                  !.progress = @ \o <<0>>]]
    /\ modal' = handleUploadCatch([modal EXCEPT !.uploadPending = FALSE])
    /\ UNCHANGED <<callVars, keyVars, calls, storeVars, viewVars, dashboard, qa>>

\* contractAnalysis.mutateAsync resolved: setProgress(100) and the end of
\* handleUpload
analysisResolves(i) ==
    /\ pipelines[i].stage = "analyzing"
    /\ \E id \in {FreshUuid(storeCount + 1)} \cup AnswerIds :
        LET a == AnalysisAt(id, storeCount + 1)
            end == handleUploadCompletes(localStorage, a)
            m == [modal EXCEPT !.progress = 100, !.analysisPending = FALSE]
        IN  /\ analysis' = a
            /\ localStorage' = end.store
            /\ IF end.error = None
               THEN /\ pipelines' = [pipelines EXCEPT ![i] =
                                        [@ EXCEPT !.stage = "done",
                                                  !.steps = @ \o end.steps,
                                                  !.progress = @ \o <<100, 0>>,
                                                  !.handedId = a.id,
                                                  !.storedWhenHanded = end.storedWhenHanded]]
                    /\ dashboard' = [dashboard EXCEPT !.currentAnalysisId = a.id,
                                                      !.showUploadModal = FALSE]
                    /\ modal' = [m EXCEPT !.selectedFile = NoRecord, !.progress = 0]
               ELSE /\ pipelines' = [pipelines EXCEPT ![i] =
                                        [@ EXCEPT !.stage = "failed", !.failedAt = "store",
                                                  !.steps = @ \o end.steps,
                                                  !.progress = @ \o <<100, 0>>]]
                    /\ dashboard' = dashboard
                    /\ modal' = handleUploadCatch(m)
    /\ storeCount' = storeCount + 1
    /\ UNCHANGED <<callVars, keyVars, calls, viewVars, qa, readBack>>

\* contractAnalysis.mutateAsync rejected: analyzeContract threw
analysisRejects(i) ==
    /\ pipelines[i].stage = "analyzing"
    /\ pipelines' = [pipelines EXCEPT ![i] =
                        [@ EXCEPT !.stage = "failed", !.failedAt = "analysis",
                                  !.progress = @ \o <<0>>]]
    /\ modal' = handleUploadCatch([modal EXCEPT !.analysisPending = FALSE])
    /\ UNCHANGED <<callVars, keyVars, calls, storeVars, viewVars, dashboard, qa>>

NextUpload ==
    \/ dashboardMounts
    \/ mountEffectsRun
    \/ introTimerFires
    \/ handleIntroComplete
    \/ openUploadModal
    \/ closeUploadModal
    \/ \E file \in UploadFiles : handleFileSelect(file)
    \/ handleUpload
    \/ \E i \in 1..Len(pipelines) : extractionResolves(i)
    \/ \E i \in 1..Len(pipelines) : extractionRejects(i)
    \/ \E i \in 1..Len(pipelines) : analysisResolves(i)
    \/ \E i \in 1..Len(pipelines) : analysisRejects(i)

SpecUpload == Init /\ [][NextUpload]_vars

\* the calls of a handleUpload that went through, in their order
SuccessfulSteps ==
    <<"validateFileSize", "validateFileType", "fileUpload.mutateAsync",
      "contractAnalysis.mutateAsync", "storeAnalysis", "onAnalysisComplete",
      "onClose", "resetModal">>

BecomesStage(i, stage) ==
    /\ pipelines'[i].stage = stage
    /\ (i > Len(pipelines) \/ pipelines[i].stage # stage)

\* C25: a successful handleUpload validates, extracts, analyses, stores,
\* calls onAnalysisComplete(analysis.id), onClose and resets, in this order;
\* progress goes 10, 20, 50, 100 and then back to 0; the id handed to
\* onAnalysisComplete is the id of an analysis that is stored by then
C25_SuccessfulUploadOrder ==
    [][\A i \in 1..Len(pipelines') :
          BecomesStage(i, "done") =>
              LET p == pipelines'[i]
              IN  /\ p.steps = SuccessfulSteps
                  /\ p.progress = <<10, 20, 50, 100, 0>>
                  /\ p.storedWhenHanded
                  /\ analysisKey(p.handedId) \in DOMAIN localStorage'
                  /\ localStorage'[analysisKey(p.handedId)].fields.id = p.handedId
                  /\ Head(localStorage'["analysis-ids"].items) = p.handedId
                  /\ dashboard'.currentAnalysisId = p.handedId
                  /\ ~dashboard'.showUploadModal
                  /\ modal'.progress = 0 /\ modal'.selectedFile = NoRecord]_vars

C25_Witness ==
    \E i \in 1..Len(pipelines) :
        /\ pipelines[i].stage = "done"
        /\ dashboard.currentAnalysisId = pipelines[i].handedId
        /\ modal.progress = 0

\* C26: when validation, extraction or analysis fails, nothing is written
\* to localStorage, neither onAnalysisComplete nor onClose is called,
\* progress returns to 0 and the selected file stays selected
C26_FailedUploadLeavesNoTrace ==
    [][\A i \in 1..Len(pipelines') :
          (/\ BecomesStage(i, "failed")
           /\ pipelines'[i].failedAt \in {"validation", "extraction", "analysis"}) =>
              LET p == pipelines'[i]
              IN  /\ localStorage' = localStorage
                  /\ dashboard' = dashboard
                  /\ \A k \in 1..Len(p.steps) :
                        p.steps[k] \notin {"storeAnalysis", "onAnalysisComplete",
                                           "onClose", "resetModal"}
                  /\ p.progress[Len(p.progress)] = 0
                  /\ modal'.progress = 0
                  /\ modal'.selectedFile = modal.selectedFile
                  /\ modal'.selectedFile # NoRecord]_vars

C26_Witness ==
    /\ \E i \in 1..Len(pipelines) : pipelines[i].failedAt = "analysis"
    /\ \E j \in 1..Len(pipelines) : pipelines[j].failedAt \in {"validation", "extraction"}
    /\ modal.progress = 0
    /\ modal.selectedFile # NoRecord

\* C27: at most one handleUpload is in flight per modal, and the Analyze
\* button is disabled whenever extraction or analysis is pending or
\* progress is 100
C27_OneUploadInFlight ==
    /\ Cardinality({i \in 1..Len(pipelines) : InFlight(pipelines[i])}) <= 1
    /\ ((\E i \in 1..Len(pipelines) : InFlight(pipelines[i])) <=> isProcessing)
    /\ (isProcessing \/ modal.progress = 100) => analyzeDisabled

C27_Witness ==
    /\ Len(pipelines) = 2
    /\ InFlight(pipelines[2])
    /\ dashboard.showUploadModal
    /\ modal.selectedFile # NoRecord
    /\ modal.selectedFile # pipelines[2].file
    /\ analyzeDisabled

====
